---- MODULE Spec2Model ----
(***************************************************************************)
(* The chat command pipeline of the trychlorophyll Mineflayer bot.         *)
(*                                                                         *)
(* The repository holds several variants of the same bot.  Three of them   *)
(* are modelled here, selected by the variable `variant`:                  *)
(*   "cerebras"  src/bot.js lines 383-939   (public chat: conversation     *)
(*               only; whispers: owner commands and instructions)          *)
(*   "nlp"       src/unnamed/part_000       (two bot.on('chat') handlers,  *)
(*               rule-based planner)                                       *)
(*   "arli"      src/unnamed/part_002       (one bot.on('chat') handler)   *)
(*                                                                         *)
(* A message text is a sequence of word tokens (the words of the line,     *)
(* split at white space).  A regular expression of the source such as      *)
(* /\btrust\s+(\w+)\b/i is the search for the first token that equals      *)
(* "trust" in any letter case and is followed by another token.            *)
(*                                                                         *)
(* Every handler of the source is an async function.  One action of the    *)
(* model is the code that runs between two suspensions of one handler in   *)
(* which the event loop can take another event: a timeout, a backend call  *)
(* or a dynamic import.  An await that settles in the same turn (of an     *)
(* async function that returns without waiting) suspends nothing but lets  *)
(* the rest of the running turn, the second chat listener of part_000,     *)
(* go first.  Time is abstract: the 60 s follow timers all have the same   *)
(* delay, so they fire in the order they were armed (a FIFO queue); the    *)
(* other delays (wait, pacing, backend calls) end in any order.            *)
(***************************************************************************)
EXTENDS Integers, Sequences, FiniteSets, TLC

VARIABLES
    variant,           \* which program of the repository runs
    trustedPlayers,    \* let trustedPlayers (as a set of names)
    ignoredPlayers,    \* let ignoredPlayers (as a set of names)
    memory,            \* let memory: the conversation log
    trustedFile,       \* trusted.json
    ignoredFile,       \* ignored.json
    pathfinderLoaded,  \* let pathfinderLoaded
    goal,              \* bot.pathfinder.goal: the controller's current goal
    timers,            \* the armed 60 s follow timers, oldest first; in the
                       \* Gemini variant the 60 s food interval
    tasks,             \* the handler instances suspended at an await
    nmsgs,             \* number of inbound events delivered so far
    last,              \* what the last action was given and what it did
    sup,               \* the connection supervisor: handles, flag and timers
    stores,            \* what start-up found in memory.json, trusted.json, ignored.json
    nlpImported        \* part_000: import('compromise') succeeded, nlp is the library

vars == <<variant, trustedPlayers, ignoredPlayers, memory, trustedFile,
          ignoredFile, pathfinderLoaded, goal, timers, tasks, nmsgs, last, sup,
          stores, nlpImported>>

----------------------------------------------------------------------------
(* Bounds of the model *)

\* inbound events (chat lines and whispers) delivered in one behaviour
GateMaxMsgs == 2

ExecMaxMsgs == 2

GeminiMaxMsgs == 2

LogMaxMsgs == 2

LoadMaxMsgs == 1

\* messages per behaviour of SpecTrust
TrustMaxMsgs == 2

\* messages per behaviour of SpecStop
StopMaxMsgs == 3

\* calls of createBot in one behaviour of SpecSup
MaxConns == 7

\* the longest raw line of SpecNorm
MaxLineLen == 5

PlanMaxMsgs == 2

\* handler instances suspended at the same time
MaxTasks == 2

----------------------------------------------------------------------------
(* Configuration *)

ownerName == "TryChloroform"

BotUsername == "phyll"

botNames == {"trychlorophyll", "phyll"}

Variants == {"cerebras", "nlp", "arli"}

Names == {ownerName, "Alice", "bob"}

\* memory is trimmed to this many entries after a user turn is pushed
MemoryCap == 50

NoGoal == [type |-> "none"]

----------------------------------------------------------------------------
(* Text *)

\* String.prototype.toLowerCase on one token
Lower(w) ==
    CASE w = "TryChloroform" -> "trychloroform"
      [] w = "Alice" -> "alice"
      [] w = "Phyll" -> "phyll"
      [] w = "Trust" -> "trust"
      [] w = "<TryChloroform>" -> "<trychloroform>"
      [] w = "<Alice>" -> "<alice>"
      [] w = "[Server]" -> "[server]"
      [] OTHER -> w

\* the searched strings that a lower-case token contains as a substring
Subs(w) ==
    CASE w = "trychlorophyll" -> {"trychlorophyll", "phyll"}
      [] w = "trusted" -> {"trusted", "trust"}
      [] w = "untrust" -> {"untrust", "trust"}
      [] w = "unignore" -> {"unignore", "ignore"}
      [] w = "<phyll>" -> {"<phyll>", "phyll"}
      [] OTHER -> {w}

\* msgLower.includes(s) for a one-word s
Includes(message, s) ==
    \E i \in 1..Len(message) : s \in Subs(Lower(message[i]))

\* msgLower.includes('trusted list')
IncludesTrustedList(message) ==
    \E i \in 1..(Len(message) - 1) :
        /\ "trusted" \in Subs(Lower(message[i]))
        /\ Lower(message[i + 1]) = "list"

\* /\b(w1|w2|...)\b/i.test(msgLower)
HasWord(message, words) ==
    \E i \in 1..Len(message) : Lower(message[i]) \in words

\* message.match(/\b(w1|w2|...)\s+(\w+)\b/i): the leftmost keyword token that
\* has a token after it.  at = 0 when there is no match; kw is capture group
\* of the keyword, name the capture group of the word after it.
MatchWord(message, words) ==
    LET hits == {i \in 1..(Len(message) - 1) : Lower(message[i]) \in words}
    IN IF hits = {}
       THEN [at |-> 0, kw |-> "", name |-> ""]
       ELSE LET i == CHOOSE j \in hits : \A k \in hits : j <= k
            IN [at |-> i, kw |-> message[i], name |-> message[i + 1]]

\* botNames.some(n => msgLower.includes(n.toLowerCase()))
Mentioned(message) ==
    \E n \in botNames : Includes(message, Lower(n))

\* the action verbs an untrusted player is refused for (cerebras, nlp)
ActionVerbs ==
    {"follow", "goto", "come", "hold", "drop", "tp", "tpa", "wait",
     "mine", "build", "attack"}

\* the words that send a trusted whisper to the planner (cerebras)
InstructionWords == ActionVerbs \cup {"go", "move"}

\* the action verbs of the arli variant
ArliVerbs == {"follow", "goto", "come", "hold", "drop", "tp", "tpa", "wait"}

----------------------------------------------------------------------------
(* The state a handler works on, and what it has sent so far.              *)
(* out: the replies sent by the running action, in order; calls: the       *)
(* arguments of its bot.pathfinder.setGoal calls, in order; spawn: the     *)
(* suspended handler instance the action leaves behind, if any; writes:    *)
(* the list files it has rewritten, each with the number of replies sent   *)
(* before the write; waited: the seconds of the timeout a wait step has    *)
(* started (0: none); ran: the plan steps whose body it has run, each with  *)
(* the kinds of the replies and the number of setGoal calls the step made   *)
(* and how the step ended; asked, plan: the backend answers a planner has    *)
(* consumed and the steps it returned.                                      *)

NoTask == [pc |-> "none"]

\* The server's player list while an action runs (an input of the action).
\* players: the keys of bot.players; entities: the players whose entity is
\* loaded (bot.players[name]?.entity), who are all in bot.players.
World(players, entities) == [players |-> players, entities |-> entities]

\* everybody is listed and nobody is in sight
Offstage == World(Names, {})

\* the players who can be in sight
Visibles == {"Alice", "bob"}

\* The player lists an action can meet.  Only whisper() of part_000 reads
\* bot.players itself; for the other programs the list is left full.
Worlds ==
    {World(IF listed THEN Names ELSE e, e) :
        e \in SUBSET Visibles,
        listed \in IF variant = "nlp" THEN BOOLEAN ELSE {TRUE}}

CtxIn(world) ==
    [trustedPlayers |-> trustedPlayers, ignoredPlayers |-> ignoredPlayers,
     memory |-> memory, trustedFile |-> trustedFile, ignoredFile |-> ignoredFile,
     pathfinderLoaded |-> pathfinderLoaded, goal |-> goal,
     timers |-> timers, out |-> <<>>, calls |-> <<>>, writes |-> <<>>,
     waited |-> 0, ran |-> <<>>, asked |-> <<>>, plan |-> <<>>, spawn |-> NoTask,
     threw |-> FALSE, world |-> world]

Ctx == CtxIn(Offstage)

\* function whisper(player, message) of part_000: /msg to the player if
\* bot.players[player] is there, the public chat if not.  The result is the
\* recipient.
whisper(S, player) == IF player \in S.world.players THEN player ELSE "*"

\* bot.whisper(to, ...) of bot.js, whisper(to, ...) of part_000, and
\* bot.chat(...) with to = "*"
Say(S, to, kind, arg) ==
    LET rcpt == IF variant = "nlp" /\ to # "*" THEN whisper(S, to) ELSE to
    IN [S EXCEPT !.out = Append(@, [to |-> rcpt, kind |-> kind, arg |-> arg])]

\* bot.pathfinder.setGoal(g)
SetGoal(S, g) ==
    [S EXCEPT !.goal = g, !.calls = Append(@, g)]

\* Observation, not program state: every follow timer that is armed when a
\* goal-setting step or a stop command runs notes that it happened.
NoteGoalCommand(S) ==
    [S EXCEPT !.timers = [k \in 1..Len(@) |-> [@[k] EXCEPT !.disturbed = TRUE]]]

\* memory.push({ role: 'user', ... }); while (memory.length > 50) memory.shift()
RECURSIVE TrimWhile(_)
TrimWhile(m) == IF Len(m) > MemoryCap THEN TrimWhile(Tail(m)) ELSE m

PushUser(S, username) ==
    [S EXCEPT !.memory = TrimWhile(Append(@, [role |-> "user", who |-> username]))]

\* memory.push({ role: 'user', ... }); if (memory.length > 50) memory.shift()
PushUserShiftOnce(S, username) ==
    LET m == Append(S.memory, [role |-> "user", who |-> username])
    IN [S EXCEPT !.memory = IF Len(m) > MemoryCap THEN Tail(m) ELSE m]

\* memory.push({ role: 'assistant', ... }); saveMemory()   (no trim)
PushAssistant(S, username) ==
    [S EXCEPT !.memory = Append(@, [role |-> "assistant", who |-> username])]

\* Observation: S1 is S after the body of steps[t.i] has run and ended with
\* next.  at: the running handler and the index of the step; said, goals:
\* the replies and the setGoal calls of the step (kinds, calls: the kinds
\* of the replies and the number of the calls).
NoteRan(S, S1, t, next) ==
    [S1 EXCEPT !.ran = Append(@,
        [step |-> t.steps[t.i],
         at |-> <<t.id, t.i>>,
         kinds |-> {S1.out[k].kind : k \in (Len(S.out) + 1)..Len(S1.out)},
         said |-> SubSeq(S1.out, Len(S.out) + 1, Len(S1.out)),
         calls |-> Len(S1.calls) - Len(S.calls),
         goals |-> SubSeq(S1.calls, Len(S.calls) + 1, Len(S1.calls)),
         next |-> next])]

Suspend(S, pc, username, chan, steps) ==
    [S EXCEPT !.spawn = [pc |-> pc, id |-> 0, user |-> username, chan |-> chan,
                         steps |-> steps, i |-> 1]]

----------------------------------------------------------------------------
(* The persisted lists.  A file is absent or holds a list of names.        *)

\* form: "missing"; "array" the file holds a JSON array; "syntax"
\* JSON.parse throws on it; "other" it parses to a value without methods
\* of a list (null, a number, an object); "string" it parses to a string,
\* which has includes (a substring test: list holds the names it finds)
\* but no push, filter or join.
NoFile == [exists |-> FALSE, list |-> {}, form |-> "missing"]

FileOf(list) == [exists |-> TRUE, list |-> list, form |-> "array"]

CorruptFile == [exists |-> TRUE, list |-> {}, form |-> "syntax"]

NonArrayFile == [exists |-> TRUE, list |-> {}, form |-> "other"]

StringFile(list) == [exists |-> TRUE, list |-> list, form |-> "string"]

\* trustedPlayers = fs.existsSync(trustedFile) ? JSON.parse(...) : trustedPlayers
\* The catch block leaves [ownerName]; a value that is no array is assigned
\* as it is (stores.trusted says so; the set holds what includes finds in
\* a string and stands for a value that has no includes).
LoadTrusted(file) ==
    IF file.form \in {"array", "string"} THEN file.list ELSE {ownerName}

\* ignoredPlayers = fs.existsSync(ignoredFile) ? JSON.parse(...) : []
LoadIgnored(file) == IF file.form \in {"array", "string"} THEN file.list ELSE {}

\* memory = fs.existsSync(memoryFile) ? JSON.parse(...) : [], catch: memory = []
LoadMemory(form, log) == IF form = "array" THEN log ELSE <<>>

\* The handler throws a TypeError: a method is called on a store whose
\* value does not have it.  What the handler did before stays done.
Threw(S) == [S EXCEPT !.threw = TRUE]

\* store.includes(...) throws
NoIncludes(form) == form = "other"

\* store.push(...), store.filter(...) and store.join(...) throw
NoListMethods(form) == form \in {"other", "string"}

\* The whisper handler of bot.js with the stores as start-up left them,
\* test by test in the order of the code: ignoredPlayers.includes (787),
\* where an ignored sender returns; trustedPlayers.includes (791); in the
\* owner block push (806, 832), filter (819, 845) and join (863); and
\* memory.push (877).  R: what the handler does when no call throws.
WithStores(S, username, message, R) ==
    LET owner == username = ownerName
        addMatch == MatchWord(message, {"trust"})
        delMatch == MatchWord(message, {"forget", "untrust", "revoke"})
        ignoreAdd == MatchWord(message, {"ignore"})
        ignoreDel == MatchWord(message, {"unignore", "forgive"})
    IN IF username = "" \/ username = BotUsername THEN R
       ELSE IF NoIncludes(stores.ignored) THEN Threw(S)
       ELSE IF username \in S.ignoredPlayers THEN R
       ELSE IF NoIncludes(stores.trusted) THEN Threw(S)
       ELSE IF owner /\ addMatch.at # 0
            THEN IF addMatch.name \notin S.trustedPlayers /\ NoListMethods(stores.trusted)
                 THEN Threw(S) ELSE R
       ELSE IF owner /\ delMatch.at # 0
            THEN IF NoListMethods(stores.trusted) THEN Threw(S) ELSE R
       ELSE IF owner /\ ignoreAdd.at # 0
            THEN IF ignoreAdd.name \notin S.ignoredPlayers /\ NoListMethods(stores.ignored)
                 THEN Threw(S) ELSE R
       ELSE IF owner /\ ignoreDel.at # 0
            THEN IF NoListMethods(stores.ignored) THEN Threw(S) ELSE R
       ELSE IF owner /\ Includes(message, "status") THEN R
       ELSE IF owner /\ IncludesTrustedList(message)
            THEN IF NoListMethods(stores.trusted) THEN Threw(S) ELSE R
       ELSE IF owner /\ Includes(message, "stop") THEN R
       ELSE IF NoListMethods(stores.memory) THEN Threw(S)
       ELSE R

\* const convoPrompt = `... ${trustedPlayers.join(', ')} ...` (bot.js 911)
\* and the backend call after it: the handler is suspended in the call, or
\* join throws
StartConvo(S, task) ==
    IF variant = "cerebras" /\ NoListMethods(stores.trusted) THEN Threw(S)
    ELSE [S EXCEPT !.spawn = task]

saveTrustedSkipped(S) == S

\* fs.writeFileSync(trustedFile, JSON.stringify(trustedPlayers, null, 2))
saveTrusted(S) ==
    [S EXCEPT !.trustedFile = FileOf(S.trustedPlayers),
              !.writes = Append(@, [file |-> "trusted", list |-> S.trustedPlayers,
                                    replies |-> Len(S.out)])]

\* fs.writeFileSync(ignoredFile, JSON.stringify(ignoredPlayers, null, 2))
saveIgnored(S) ==
    [S EXCEPT !.ignoredFile = FileOf(S.ignoredPlayers),
              !.writes = Append(@, [file |-> "ignored", list |-> S.ignoredPlayers,
                                    replies |-> Len(S.out)])]

----------------------------------------------------------------------------
(* Authorization gate: the owner's list commands *)

IsOwnerAnyone(username) == TRUE

\* if (username === ownerName)
IsOwner(username) == username = ownerName

\* trustedPlayers.includes(username)
isTrusted(S, username) == username \in S.trustedPlayers

\* The four list commands of the whisper handler of bot.js and of the first
\* chat handler of part_000.  done: the handler returned.
ListCommands(S, username, message) ==
    LET addMatch == MatchWord(message, {"trust"})
        delMatch == MatchWord(message, {"forget", "untrust", "revoke"})
        ignoreAdd == MatchWord(message, {"ignore"})
        ignoreDel == MatchWord(message, {"unignore", "forgive"})
    IN  IF addMatch.at # 0 THEN
            LET target == addMatch.name
            IN IF target \notin S.trustedPlayers
               THEN [done |-> TRUE,
                     S |-> Say(saveTrusted([S EXCEPT !.trustedPlayers = @ \cup {target}]),
                               username, "now_trusted", target)]
               ELSE [done |-> TRUE,
                     S |-> Say(S, username, "already_trusted", target)]
        ELSE IF delMatch.at # 0 THEN
            LET target == delMatch.name
                wasRemoved == target \in S.trustedPlayers
                S1 == saveTrusted([S EXCEPT !.trustedPlayers = @ \ {target}])
            IN [done |-> TRUE,
                S |-> IF wasRemoved
                      THEN Say(S1, username, "no_longer_trusted", target)
                      ELSE Say(S1, username, "wasnt_trusted", target)]
        ELSE IF ignoreAdd.at # 0 THEN
            LET target == ignoreAdd.name
            IN IF target \notin S.ignoredPlayers
               THEN [done |-> TRUE,
                     S |-> Say(saveIgnored([S EXCEPT !.ignoredPlayers = @ \cup {target}]),
                               username, "now_ignored", target)]
               ELSE [done |-> TRUE,
                     S |-> Say(S, username, "already_ignored", target)]
        ELSE IF ignoreDel.at # 0 THEN
            \* const target = ignoreDel[1]: the first capture group is the
            \* keyword (unignore|forgive), the name is the second
            LET target == ignoreDel.kw
                wasRemoved == target \in S.ignoredPlayers
                S1 == saveIgnored([S EXCEPT !.ignoredPlayers = @ \ {target}])
            IN [done |-> TRUE,
                S |-> IF wasRemoved
                      THEN Say(S1, username, "no_longer_ignored", target)
                      ELSE Say(S1, username, "wasnt_ignored", target)]
        ELSE [done |-> FALSE, S |-> S]

\* The owner block of part_002: an add command for a name that is already
\* in the list returns nothing and falls through to the next test.
ListCommandsArli(S, username, message) ==
    LET addMatch == MatchWord(message, {"trust"})
        delMatch == MatchWord(message, {"forget", "untrust", "revoke"})
        ignoreMatch == MatchWord(message, {"ignore"})
        unignoreMatch == MatchWord(message, {"unignore"})
    IN  IF addMatch.at # 0 /\ addMatch.name \notin S.trustedPlayers THEN
            [done |-> TRUE,
             S |-> Say(saveTrusted([S EXCEPT !.trustedPlayers = @ \cup {addMatch.name}]),
                       "*", "now_trusted", addMatch.name)]
        ELSE IF delMatch.at # 0 THEN
            [done |-> TRUE,
             S |-> Say(saveTrusted([S EXCEPT !.trustedPlayers = @ \ {delMatch.name}]),
                       "*", "no_longer_trusted", delMatch.name)]
        ELSE IF ignoreMatch.at # 0 /\ ignoreMatch.name \notin S.ignoredPlayers THEN
            [done |-> TRUE,
             S |-> Say(saveIgnored([S EXCEPT !.ignoredPlayers = @ \cup {ignoreMatch.name}]),
                       "*", "now_ignored", ignoreMatch.name)]
        ELSE IF unignoreMatch.at # 0 THEN
            [done |-> TRUE,
             S |-> Say(saveIgnored([S EXCEPT !.ignoredPlayers = @ \ {unignoreMatch.name}]),
                       "*", "no_longer_ignored", unignoreMatch.name)]
        ELSE [done |-> FALSE, S |-> S]

\* a slip: the stop command also drops the armed follow timers
StatusCommandsDropsTimers(S, username, message) ==
    IF Includes(message, "status") THEN
        [done |-> TRUE, S |-> Say(S, username, "status", "")]
    ELSE IF IncludesTrustedList(message) THEN
        [done |-> TRUE, S |-> Say(S, username, "trusted_list", "")]
    ELSE IF Includes(message, "stop") THEN
        [done |-> TRUE,
         S |-> IF S.pathfinderLoaded
               THEN Say([SetGoal(S, NoGoal) EXCEPT !.timers = <<>>],
                        username, "stopped_all", "")
               ELSE S]
    ELSE [done |-> FALSE, S |-> S]

\* The owner's status commands of the whisper handler of bot.js: each returns.
StatusCommands(S, username, message) ==
    IF Includes(message, "status") THEN
        [done |-> TRUE, S |-> Say(S, username, "status", "")]
    ELSE IF IncludesTrustedList(message) THEN
        [done |-> TRUE, S |-> Say(S, username, "trusted_list", "")]
    ELSE IF Includes(message, "stop") THEN
        [done |-> TRUE,
         S |-> IF S.pathfinderLoaded
               THEN Say(NoteGoalCommand(SetGoal(S, NoGoal)),
                        username, "stopped_all", "")
               ELSE S]
    ELSE [done |-> FALSE, S |-> S]

\* The second bot.on('chat') handler of part_000: three independent tests,
\* no ignore test, and it runs on every chat event beside the first handler.
StatusHandler(S, username, message) ==
    IF username # ownerName THEN S
    ELSE
      LET S1 == IF Includes(message, "status") /\ Mentioned(message)
                THEN Say(S, username, "status", "") ELSE S
          S2 == IF IncludesTrustedList(message) /\ Mentioned(message)
                THEN Say(S1, username, "trusted_list", "") ELSE S1
      IN IF Includes(message, "stop") /\ Mentioned(message) /\ S2.pathfinderLoaded
         THEN Say(NoteGoalCommand(SetGoal(S2, NoGoal)),
                  username, "stopped_all", "")
         ELSE S2

----------------------------------------------------------------------------
(* Message normalization of the chat handlers *)

\* The token a line starts with, as /^<?(\w+)>?\s*(.*)/ reads it: "" when
\* the line does not start with a word or a bracketed word.
LeadName(w) ==
    CASE w = "<TryChloroform>" -> "TryChloroform"
      [] w = "<Alice>" -> "Alice"
      [] w = "<bob>" -> "bob"
      [] w = "[Server]" -> ""
      [] OTHER -> w

\* if (!username) { const match = message.match(/^<?(\w+)>?\s*(.*)/) ... }
\* ok = FALSE: the handler returns (bot.js, part_000).
UsernameFallback(username, message) ==
    IF username # "" THEN [ok |-> TRUE, username |-> username, message |-> message]
    ELSE IF Len(message) > 0 /\ LeadName(message[1]) # ""
    THEN [ok |-> TRUE, username |-> LeadName(message[1]), message |-> Tail(message)]
    ELSE [ok |-> FALSE, username |-> username, message |-> message]

\* part_002: else { username = 'Unknown' }
UsernameFallbackArli(username, message) ==
    LET f == UsernameFallback(username, message)
    IN IF f.ok THEN f
       ELSE [ok |-> TRUE, username |-> "Unknown", message |-> message]

----------------------------------------------------------------------------
(* The user-name fallback read character by character.  A line is a       *)
(* sequence of one-character strings.                                      *)

\* \w
IsWordChar(c) == c \in {"a", "b", "A", "_", "7"}

\* \s
IsSpace(c) == c = " "

\* the number of characters from position i on that satisfy the test of
\* kind ("w" for \w, "s" for \s): what a greedy \w+ or \s* takes there
RECURSIVE RunFrom(_, _, _)
RunFrom(line, i, kind) ==
    IF i > Len(line) THEN 0
    ELSE IF (kind = "w" /\ IsWordChar(line[i])) \/ (kind = "s" /\ IsSpace(line[i]))
    THEN 1 + RunFrom(line, i + 1, kind)
    ELSE 0

\* no actor and no text
NoNorm == [ok |-> FALSE, username |-> <<>>, message |-> <<>>]

\* a slip: the closing bracket is left to the text
MatchNameBracketKept(line) ==
    LET start == IF Len(line) > 0 /\ line[1] = "<" THEN 2 ELSE 1
        n == RunFrom(line, start, "w")
        rest == start + n + RunFrom(line, start + n, "s")
    IN IF n = 0 THEN NoNorm
       ELSE [ok |-> TRUE, username |-> SubSeq(line, start, start + n - 1),
             message |-> SubSeq(line, rest, Len(line))]

\* message.match(/^<?(\w+)>?\s*(.*)/): match[1] and match[2].  When \w+
\* finds no word character after a "<", the optional "<" is given back and
\* \w+ fails on the "<" too, so there is no match.
MatchName(line) ==
    LET start == IF Len(line) > 0 /\ line[1] = "<" THEN 2 ELSE 1
        n == RunFrom(line, start, "w")
        close == start + n
        after == IF close <= Len(line) /\ line[close] = ">" THEN close + 1 ELSE close
        rest == after + RunFrom(line, after, "s")
    IN IF n = 0 THEN NoNorm
       ELSE [ok |-> TRUE, username |-> SubSeq(line, start, start + n - 1),
             message |-> SubSeq(line, rest, Len(line))]

\* part_002: else { username = 'Unknown' }, the message stays the line
MatchNameArli(line) ==
    IF MatchName(line).ok THEN MatchName(line)
    ELSE [ok |-> TRUE, username |-> <<"U", "n", "k", "n", "o", "w", "n">>,
          message |-> line]

\* bot.js 260-264: message.match(/^<(\w+)>/) and
\* message.replace(/^<\w+>\s*/, '')
MatchNameGemini(line) ==
    LET n == RunFrom(line, 2, "w")
        close == 2 + n
        rest == close + 1 + RunFrom(line, close + 1, "s")
    IN IF Len(line) > 0 /\ line[1] = "<" /\ n > 0
          /\ close <= Len(line) /\ line[close] = ">"
       THEN [ok |-> TRUE, username |-> SubSeq(line, 2, close - 1),
             message |-> SubSeq(line, rest, Len(line))]
       ELSE NoNorm

----------------------------------------------------------------------------
(* The rule-based planner of part_000 *)

IsNumber(w) == w \in {"10", "64", "5", "400", "-70"}

NumVal(w) ==
    CASE w = "10" -> 10
      [] w = "64" -> 64
      [] w = "5" -> 5
      [] w = "400" -> 400
      [] w = "-70" -> -70
      [] OTHER -> 0

\* message.toLowerCase(), token by token
LowerAll(message) == [k \in 1..Len(message) |-> Lower(message[k])]

\* word.replace(/[^a-zA-Z0-9_]/g, ''): the token without the characters
\* that are no letter, digit or underscore
StripNonWord(w) ==
    CASE w = "-70" -> "70"
      [] w = "bob!" -> "bob"
      [] w = "!!" -> ""
      [] w = "<phyll>" -> "phyll"
      [] w = "<trychloroform>" -> "trychloroform"
      [] w = "<alice>" -> "alice"
      [] w = "<bob>" -> "bob"
      [] w = "[server]" -> "server"
      [] OTHER -> w

\* extractPlayerName(doc, defaultName).  people: doc.people().out('array'),
\* the names the NLP library recognizes in the text (its input here).
extractPlayerName(words, people, defaultName) ==
    IF Len(people) > 0 THEN people[1]
    ELSE LET verbs == {"follow", "goto", "teleport", "tp", "tpa", "to"}
             hits == {k \in 1..Len(words) : words[k] \in verbs}
         IN IF hits = {} THEN defaultName
            ELSE LET playerIndex == CHOOSE j \in hits : \A k \in hits : j <= k
                 IN IF playerIndex + 1 <= Len(words)
                    THEN StripNonWord(words[playerIndex + 1])
                    ELSE defaultName

\* message.match(/(-?\d+)[,\s]+(-?\d+)[,\s]+(-?\d+)/): the first three
\* number tokens in a row (0 when there are none)
CoordAt(message) ==
    LET hits == {k \in 1..(Len(message) - 2) :
                    IsNumber(message[k]) /\ IsNumber(message[k + 1])
                    /\ IsNumber(message[k + 2])}
    IN IF hits = {} THEN 0 ELSE CHOOSE j \in hits : \A k \in hits : j <= k

\* message.match(/(?:wait|pause|stop) (?:\w+ )?(\d+) (?:seconds|secs|sec)/i):
\* the position of the number token (0 when there is no match)
WaitAt(message) ==
    LET unit(k) == k <= Len(message) /\ Lower(message[k]) \in {"seconds", "secs", "sec"}
        digits(k) == k <= Len(message) /\ IsNumber(message[k]) /\ NumVal(message[k]) >= 0
        hits == {k \in 2..Len(message) :
                    /\ digits(k) /\ unit(k + 1)
                    /\ \/ Lower(message[k - 1]) \in {"wait", "pause", "stop"}
                       \/ k > 2 /\ Lower(message[k - 2]) \in {"wait", "pause", "stop"}}
    IN IF hits = {} THEN 0 ELSE CHOOSE j \in hits : \A k \in hits : j <= k

\* doc.has('go to') || doc.has('goto') || doc.has('move to')
HasMovePhrase(words) ==
    \/ \E k \in 1..Len(words) : words[k] = "goto"
    \/ \E k \in 1..(Len(words) - 1) :
          words[k] \in {"go", "move"} /\ words[k + 1] = "to"

\* parseInstructionsNLP(username, message) with nlp the library.  The third
\* operand of the teleport test is doc.match('tpa'), which returns a view
\* object whether the text holds the word or not, and an object is truthy:
\* the test comes down to !doc.has('request').
parseInstructionsNLP(username, message, people) ==
    LET words == LowerAll(message)
        has(w) == \E k \in 1..Len(words) : words[k] = w
        hasWithMe == \E k \in 1..(Len(words) - 1) :
                        words[k] = "with" /\ words[k + 1] = "me"
        c == CoordAt(message)
        w == WaitAt(message)
        follow == IF has("follow") \/ has("come") \/ hasWithMe
                  THEN <<[action |-> "follow",
                          player |-> extractPlayerName(words, people, username)]>>
                  ELSE <<>>
        goto == IF HasMovePhrase(words) /\ c # 0
                THEN <<[action |-> "goto", x |-> NumVal(message[c]),
                        y |-> NumVal(message[c + 1]), z |-> NumVal(message[c + 2]),
                        form |-> "int"]>>
                ELSE <<>>
        matchTpa == TRUE
        tpa == IF (has("teleport") \/ has("tp") \/ matchTpa) /\ ~has("request")
               THEN <<[action |-> "tpa",
                       player |-> extractPlayerName(words, people, username)]>>
               ELSE <<>>
        wait == IF w # 0
                THEN <<[action |-> "wait", seconds |-> NumVal(message[w]),
                        numeric |-> TRUE]>>
                ELSE <<>>
    IN follow \o goto \o tpa \o wait

----------------------------------------------------------------------------
(* The generative planner (bot.js 559-626) *)

\* The backend's answer to the planning prompt.  kind: "sentinel" geminiChat
\* caught an error and returned its apology; "prose" text without braces;
\* "badjson" braces that JSON.parse rejects; "json" an object.  shape: what
\* its steps field is: "array", "string", "object" or "missing".
Response(kind, shape, steps) == [kind |-> kind, shape |-> shape, steps |-> steps]

\* askCerebras returns an object (not null): the response is not the
\* "trouble thinking" sentinel, has braces, and JSON.parse accepts them
Parsed(resp) == resp.kind = "json"

\* if (parsed && Array.isArray(parsed.steps))
ValidPlan(resp) == Parsed(resp) /\ resp.shape = "array"

\* parseInstructionsLLM: r1 answers the normal prompt, r2 the strict one
\* (asked only when r1 gave no steps array).  asked: the answers consumed.
parseInstructionsLLM(r1, r2) ==
    IF ValidPlan(r1) THEN [steps |-> r1.steps, asked |-> <<r1>>]
    ELSE IF ValidPlan(r2) THEN [steps |-> r2.steps, asked |-> <<r1, r2>>]
    ELSE [steps |-> <<>>, asked |-> <<r1, r2>>]

\* Observation: the answers a planner consumed and the steps it returned
NotePlan(S, asked, steps) == [S EXCEPT !.asked = asked, !.plan = steps]

----------------------------------------------------------------------------
(* The step executor (bot.js 629-720, part_000 259-350) *)

\* Clear any existing goal first: bot.pathfinder.setGoal(null)
ClearGoalSkipped(S) == S

ClearGoalFirst(S) == SetGoal(S, NoGoal)

\* setTimeout(() => {...}, 60000) of the follow step
ArmFollowTimer(S, t, g) ==
    [S EXCEPT !.timers = Append(@, [kind |-> "follow", user |-> t.user,
                                    player |-> g.player, gid |-> g.id,
                                    disturbed |-> FALSE])]

\* The coordinates of a goto step as JSON.parse can deliver them.  form:
\* "int" three integers (x, y, z hold them); "str" three strings of digits
\* (x, y, z hold their values); "none" a coordinate is missing or null;
\* "inf" a coordinate is 1e999, which JSON.parse reads as Infinity (so one of
\* |x| > 30000000, |z| > 30000000, y > 320 is true).  JSON has no NaN.
\* typeof x !== "number" || typeof y !== "number" || typeof z !== "number"
TypeofNumber(step) == step.form \in {"int", "inf"}

\* Math.max(1, Math.min(30, parseInt(step.seconds, 10) || 1))
WaitSeconds(step) ==
    LET parsed == IF step.numeric /\ step.seconds # 0 THEN step.seconds ELSE 1
        capped == IF parsed < 30 THEN parsed ELSE 30
    IN IF capped > 1 THEN capped ELSE 1

\* a slip: the goal is cleared before the target is looked up
StepBodyClearsUnseen(S, t) ==
    LET step == t.steps[t.i]
        username == t.user
    IN CASE step.action = "follow" ->
              LET S0 == [S EXCEPT !.pathfinderLoaded = TRUE]
                  g == [type |-> "follow", player |-> step.player, id |-> <<t.id, t.i>>]
              IN IF step.player \notin S.world.entities
                 THEN [S |-> Say(ClearGoalFirst(S0), username, "cant_see", step.player),
                       next |-> "continue"]
                 ELSE [S |-> ArmFollowTimer(
                               Say(SetGoal(ClearGoalFirst(NoteGoalCommand(S0)), g),
                                   username, "following", step.player), t, g),
                       next |-> "break"]
         [] step.action = "goto" ->
              LET S0 == [S EXCEPT !.pathfinderLoaded = TRUE]
                  g == [type |-> "block", x |-> step.x, y |-> step.y, z |-> step.z,
                        id |-> <<t.id, t.i>>]
                  abs(v) == IF v < 0 THEN -v ELSE v
              IN IF ~TypeofNumber(step)
                 THEN [S |-> Say(S0, username, "coords_wrong", ""), next |-> "continue"]
                 ELSE IF step.form = "inf"
                         \/ abs(step.x) > 30000000 \/ abs(step.z) > 30000000
                         \/ step.y < -64 \/ step.y > 320
                 THEN [S |-> Say(S0, username, "coords_far", ""), next |-> "continue"]
                 ELSE [S |-> Say(SetGoal(ClearGoalFirst(NoteGoalCommand(S0)), g),
                                 username, "going_to", ""),
                       next |-> "break"]
         [] step.action = "tpa" ->
              IF step.player = ""
              THEN [S |-> Say(S, username, "need_player", ""), next |-> "continue"]
              ELSE [S |-> Say(Say(S, "*", "tpa_command", step.player),
                              username, "tpa_sent", step.player),
                    next |-> "break"]
         [] step.action = "wait" ->
              [S |-> [Say(S, username, "waiting", "") EXCEPT !.waited = WaitSeconds(step)],
               next |-> "wait"]
         [] OTHER ->
              [S |-> Say(S, username, "unknown_action", step.action), next |-> "break"]

\* The body of the loop for steps[i], after `await ensurePathfinderLoaded()`
\* in a follow or goto step.  next: how the body ends: "continue" (the next
\* pass starts at once, without the pacing delay), "break" (the end of the
\* switch: the pacing delay comes if a step is left) or "wait" (the body is
\* suspended in the timeout of its wait step).
StepBody(S, t) ==
    LET step == t.steps[t.i]
        username == t.user
    IN CASE step.action = "follow" ->
              LET S0 == [S EXCEPT !.pathfinderLoaded = TRUE]
                  g == [type |-> "follow", player |-> step.player, id |-> <<t.id, t.i>>]
              IN IF step.player \notin S.world.entities
                 THEN [S |-> Say(S0, username, "cant_see", step.player),
                       next |-> "continue"]
                 ELSE [S |-> ArmFollowTimer(
                               Say(SetGoal(ClearGoalFirst(NoteGoalCommand(S0)), g),
                                   username, "following", step.player), t, g),
                       next |-> "break"]
         [] step.action = "goto" ->
              LET S0 == [S EXCEPT !.pathfinderLoaded = TRUE]
                  g == [type |-> "block", x |-> step.x, y |-> step.y, z |-> step.z,
                        id |-> <<t.id, t.i>>]
                  abs(v) == IF v < 0 THEN -v ELSE v
              IN IF ~TypeofNumber(step)
                 THEN [S |-> Say(S0, username, "coords_wrong", ""), next |-> "continue"]
                 ELSE IF step.form = "inf"
                         \/ abs(step.x) > 30000000 \/ abs(step.z) > 30000000
                         \/ step.y < -64 \/ step.y > 320
                 THEN [S |-> Say(S0, username, "coords_far", ""), next |-> "continue"]
                 ELSE [S |-> Say(SetGoal(ClearGoalFirst(NoteGoalCommand(S0)), g),
                                 username, "going_to", ""),
                       next |-> "break"]
         [] step.action = "tpa" ->
              IF step.player = ""
              THEN [S |-> Say(S, username, "need_player", ""), next |-> "continue"]
              ELSE [S |-> Say(Say(S, "*", "tpa_command", step.player),
                              username, "tpa_sent", step.player),
                    next |-> "break"]
         [] step.action = "wait" ->
              [S |-> [Say(S, username, "waiting", "") EXCEPT !.waited = WaitSeconds(step)],
               next |-> "wait"]
         [] OTHER ->
              [S |-> Say(S, username, "unknown_action", step.action), next |-> "break"]

\* memory.push({ role: 'assistant', content: `[Executed ...]` }); saveMemory()
\* of the handler, after executeSteps has returned
AfterExecute(S, t) == PushAssistant(S, t.user)

\* The end of the switch (break): the pacing delay if a step is left, or
\* the return of executeSteps and what the handler does after it.
Advance(S, t) ==
    IF t.i < Len(t.steps)
    THEN [S EXCEPT !.spawn = [t EXCEPT !.i = @ + 1, !.pc = "step"]]
    ELSE AfterExecute(S, t)

\* steps[i] is null: switch (step.action) throws a TypeError, and the catch
\* block throws another one while it builds `${step.action}`, before its
\* whisper.  The second one leaves executeSteps; the whisper handler's catch
\* (bot.js 895-899) reports it and returns, and the rest of the plan is lost.
ThrowsTwice(step) == step.action = "<null>"

\* executeSteps from steps[t.i] on, up to the point where it is suspended
\* or returns.  resumed: the body of steps[t.i] runs at once (the pacing
\* delay or the import of the pathfinder before it is over); if not, a
\* follow or goto step first awaits ensurePathfinderLoaded(), which
\* suspends the executor in its import when the pathfinder is not loaded
\* (pc "step") and settles in the same turn when it is.  sync: the run
\* stops at such an await too (pc "entered"), and at the return of
\* executeSteps (pc "returned"), where the caller's own await is.
RECURSIVE executeSteps(_, _, _, _)
executeSteps(S, t, sync, resumed) ==
    IF t.i > Len(t.steps)
    THEN IF sync THEN [S EXCEPT !.spawn = [t EXCEPT !.pc = "returned"]]
         ELSE AfterExecute(S, t)
    ELSE
      LET step == t.steps[t.i]
      IN IF ThrowsTwice(step)
         THEN NoteRan(S, Say(S, t.user, "exec_error", ""), t, "throw")
         ELSE IF ~resumed /\ step.action \in {"follow", "goto"}
                 /\ (sync \/ ~S.pathfinderLoaded)
         THEN [S EXCEPT !.spawn =
                  [t EXCEPT !.pc = IF S.pathfinderLoaded THEN "entered" ELSE "step"]]
         ELSE LET r == StepBody(S, t)
                  S1 == NoteRan(S, r.S, t, r.next)
              IN CASE r.next = "wait" -> [S1 EXCEPT !.spawn = [t EXCEPT !.pc = "wait"]]
                   [] r.next = "break" /\ t.i < Len(t.steps) ->
                        [S1 EXCEPT !.spawn = [t EXCEPT !.i = @ + 1, !.pc = "step"]]
                   [] OTHER -> executeSteps(S1, [t EXCEPT !.i = @ + 1], sync, FALSE)

\* The rest of the turn that a handler's await left behind when it settled
\* at once: it runs when the listeners of the event have returned.
Settle(S) ==
    LET t == S.spawn
    IN CASE t.pc = "entered" -> executeSteps([S EXCEPT !.spawn = NoTask], t, FALSE, TRUE)
         [] t.pc = "returned" -> AfterExecute([S EXCEPT !.spawn = NoTask], t)
         [] OTHER -> S

\* a slip: the wait step's timeout is not awaited
ExecStepNoWait(S, t) ==
    LET R == executeSteps(S, t, FALSE, TRUE)
    IN IF R.spawn.pc = "wait"
       THEN Advance([R EXCEPT !.spawn = NoTask], R.spawn)
       ELSE R

\* the executor goes on with the body of steps[t.i]
ExecStep(S, t) == executeSteps(S, t, FALSE, TRUE)

\* the wait step's timeout has run out
ExecWaitDone(S, t) == Advance(Say(S, t.user, "done_waiting", ""), t)

\* The callback of the follow step's timer:
\* if (bot.pathfinder.goal instanceof goals.GoalFollow) { ... }
FollowTimeout(S, tm) ==
    IF S.goal.type = "follow"
    THEN Say(SetGoal(S, NoGoal), tm.user, "stopped_following", tm.player)
    ELSE S

\* parseInstructionsLLM has returned steps to the whisper handler, which
\* calls executeSteps in the same turn
AfterPlan(S, t, steps) ==
    IF Len(steps) > 0
    THEN executeSteps(S, [t EXCEPT !.pc = "step", !.steps = steps, !.i = 1],
                      FALSE, FALSE)
    ELSE StartConvo(S, [t EXCEPT !.pc = "convo"])

\* parts.slice(0, 3): the parts of a long answer that are sent
MaxParts == 3

\* The backend has answered the conversational prompt.  ok: the answer is
\* not the "trouble thinking" sentinel (the arli variant sends any answer).
\* parts: 0 when the answer has at most 100 characters, else the number of
\* parts the whisper handler of bot.js sends it in (bot.js 921-931): after
\* each part it awaits a timeout of 500 ms (pc "part", i: the parts left).
\* The chat handlers send one line.
AfterConvo(S, t, ok, parts) ==
    LET to == IF t.chan = "chat" THEN "*" ELSE t.user
    IN IF ~(ok \/ variant = "arli") THEN Say(S, to, "thinking", "")
       ELSE IF variant = "cerebras" /\ t.chan = "whisper" /\ parts > 0
       THEN [Say(S, to, "convo", "part") EXCEPT
                !.spawn = [t EXCEPT !.pc = "part", !.i = parts - 1]]
       ELSE PushAssistant(Say(S, to, "convo", ""), t.user)

\* the timeout after a part of a long answer has run out: the next part,
\* or memory.push({ role: 'assistant', ... }); saveMemory() after the last
AfterPart(S, t) ==
    IF t.i > 0
    THEN [Say(S, t.user, "convo", "part") EXCEPT !.spawn = [t EXCEPT !.i = @ - 1]]
    ELSE PushAssistant(S, t.user)

----------------------------------------------------------------------------
(* The handlers, up to their first suspension *)

\* bot.on('whisper') of bot.js (cerebras)
WhisperCerebras(S, username, message) ==
    IF username = "" \/ username = BotUsername THEN S
    ELSE IF username \in S.ignoredPlayers THEN S
    ELSE
      LET trusted == isTrusted(S, username)
          lc == IF IsOwner(username) THEN ListCommands(S, username, message)
                ELSE [done |-> FALSE, S |-> S]
          sc == IF IsOwner(username) THEN StatusCommands(S, username, message)
                ELSE [done |-> FALSE, S |-> S]
          S1 == PushUser(S, username)
      IN IF lc.done THEN lc.S
         ELSE IF sc.done THEN sc.S
         ELSE IF trusted /\ HasWord(message, InstructionWords)
              THEN Suspend(S1, "plan", username, "whisper", <<>>)
         ELSE IF ~trusted /\ HasWord(message, ActionVerbs)
              THEN Say(S1, username, "refuse", ownerName)
         ELSE StartConvo(S1, [pc |-> "convo", id |-> 0, user |-> username,
                              chan |-> "whisper", steps |-> <<>>, i |-> 1])

\* a slip: the owner block of the whisper handler copied into the chat
\* handler
ChatCerebrasOwnerBlock(S, username0, message0) ==
    LET f == UsernameFallback(username0, message0)
        lc == IF IsOwner(f.username) THEN ListCommands(S, f.username, f.message)
              ELSE [done |-> FALSE, S |-> S]
    IN IF ~f.ok \/ f.username = "" \/ f.username = BotUsername THEN S
       ELSE IF f.username \in S.ignoredPlayers THEN S
       ELSE IF ~Mentioned(f.message) THEN S
       ELSE IF lc.done THEN lc.S
       ELSE Suspend(PushUser(S, f.username), "convo", f.username, "chat", <<>>)

\* bot.on('chat') of bot.js (cerebras): conversation only
ChatCerebras(S, username0, message0) ==
    LET f == UsernameFallback(username0, message0)
    IN IF ~f.ok \/ f.username = "" \/ f.username = BotUsername THEN S
       ELSE IF f.username \in S.ignoredPlayers THEN S
       ELSE IF ~Mentioned(f.message) THEN S
       ELSE Suspend(PushUser(S, f.username), "convo", f.username, "chat", <<>>)

\* nlp(text) of part_000 with nlp as start-up left it: the library, or the
\* object of the catch block, which is no function, so that the call throws
\* a TypeError
NlpThrows == ~nlpImported

\* The first bot.on('chat') handler of part_000 (nlp), up to its first
\* await.  executeSteps is called in the handler's own turn; a call of
\* nlp() that throws ends in the catch block around it.
ChatNlpFirst(S, username0, message0, people) ==
    LET f == UsernameFallback(username0, message0)
        username == f.username
        message == f.message
    IN IF ~f.ok \/ username = "" \/ username = BotUsername THEN S
       ELSE IF username \in S.ignoredPlayers THEN S
       ELSE IF ~Mentioned(message) THEN S
       ELSE
         LET trusted == isTrusted(S, username)
             lc == IF IsOwner(username) THEN ListCommands(S, username, message)
                   ELSE [done |-> FALSE, S |-> S]
             S1 == PushUser(S, username)
             steps == parseInstructionsNLP(username, message, people)
             t == [pc |-> "step", id |-> nmsgs + 1, user |-> username,
                   chan |-> "chat", steps |-> steps, i |-> 1]
         IN IF lc.done THEN lc.S
            ELSE IF trusted /\ NlpThrows
                 THEN Say(S1, username, "exec_error", "")
            ELSE IF trusted /\ Len(steps) > 0
                 THEN executeSteps(NotePlan(S1, <<>>, steps), t, TRUE, FALSE)
            ELSE IF ~trusted /\ HasWord(message, ActionVerbs)
                 THEN Say(S1, username, "refuse", ownerName)
            ELSE IF NlpThrows
                 THEN Say(S1, username, "not_understood", "")
            ELSE PushAssistant(Say(S1, username, "convo", ""), username)

\* Both bot.on('chat') handlers of part_000: the emitter calls them in the
\* order they were registered, each up to its first await, and what the
\* first one left behind an await that settled at once runs after the
\* second.
ChatNlp(S, username0, message0, people) ==
    Settle(StatusHandler(ChatNlpFirst(S, username0, message0, people),
                         username0, message0))

\* bot.on('chat') of part_002 (arli)
ChatArli(S, username0, message0) ==
    LET f == UsernameFallbackArli(username0, message0)
        username == f.username
        message == f.message
    IN IF username = BotUsername THEN S
       ELSE IF username \in S.ignoredPlayers THEN S
       ELSE IF ~(\E n \in botNames : Includes(message, n)) THEN S
       ELSE
         LET trusted == isTrusted(S, username)
             lc == IF IsOwner(username) THEN ListCommandsArli(S, username, message)
                   ELSE [done |-> FALSE, S |-> S]
             S1 == PushUserShiftOnce(S, username)
         IN IF lc.done THEN lc.S
            ELSE IF trusted THEN Say(S1, "*", "executing_trusted", username)
            ELSE IF HasWord(message, ArliVerbs)
                 THEN Say(S1, "*", "dad_refuse", ownerName)
            ELSE Suspend(S1, "convo", username, "chat", <<>>)

\* the user name and the text a chat handler works with
ChatActor(username0, message0) ==
    IF variant = "arli" THEN UsernameFallbackArli(username0, message0).username
    ELSE UsernameFallback(username0, message0).username

ChatText(username0, message0) ==
    IF variant = "arli" THEN UsernameFallbackArli(username0, message0).message
    ELSE UsernameFallback(username0, message0).message

----------------------------------------------------------------------------
(* The Gemini variant (bot.js 1-381): one handler for every chat line, a   *)
(* planner that asks the backend once, and its own executor.               *)

\* let pathfinderPkg, Movements, goals: goals is assigned only in
\* ensurePathfinderLoaded, which sets pathfinderLoaded
GoalsDefined(S) == S.pathfinderLoaded

\* const usernameMatch = message.match(/^<(\w+)>/)
BracketName(w) ==
    IF w \in {"<TryChloroform>", "<Alice>", "<bob>", "<phyll>"} THEN
        CASE w = "<phyll>" -> "phyll" [] OTHER -> LeadName(w)
    ELSE ""

\* message.includes(bot.username): case-sensitive, on the whole line
IncludesBotUsername(line) ==
    \E i \in 1..Len(line) : BotUsername \in Subs(line[i])

\* The owner block of the Gemini handler: two commands, no ignore list
ListCommandsGemini(S, username, message) ==
    LET addMatch == MatchWord(message, {"trust"})
        delMatch == MatchWord(message, {"forget", "untrust", "revoke"})
    IN  IF addMatch.at # 0 THEN
            IF addMatch.name \notin S.trustedPlayers
            THEN [done |-> TRUE,
                  S |-> Say(saveTrusted([S EXCEPT !.trustedPlayers = @ \cup {addMatch.name}]),
                            "*", "now_trusted", addMatch.name)]
            ELSE [done |-> TRUE,
                  S |-> Say(S, "*", "already_trusted", addMatch.name)]
        ELSE IF delMatch.at # 0 THEN
            [done |-> TRUE,
             S |-> Say(saveTrusted([S EXCEPT !.trustedPlayers = @ \ {delMatch.name}]),
                       "*", "no_longer_trusted", delMatch.name)]
        ELSE [done |-> FALSE, S |-> S]

\* bot.on('message') up to its first await
MessageGemini(S, line) ==
    IF Len(line) = 0 THEN S
    ELSE IF IncludesBotUsername(line) THEN S
    ELSE IF BracketName(line[1]) = "" THEN S
    ELSE
      LET username == BracketName(line[1])
          msgContent == Tail(line)
          mentioned == \E n \in botNames : Includes(msgContent, n)
          trusted == isTrusted(S, username)
          lc == IF IsOwner(username) THEN ListCommandsGemini(S, username, msgContent)
                ELSE [done |-> FALSE, S |-> S]
          S1 == PushUserShiftOnce(S, username)
      IN IF ~mentioned THEN S
         ELSE IF lc.done THEN lc.S
         ELSE IF trusted THEN Suspend(S1, "gplan", username, "chat", <<>>)
         ELSE IF HasWord(msgContent, ArliVerbs)
              THEN Say(S1, "*", "dad_refuse", ownerName)
         ELSE Suspend(S1, "gconvo", username, "chat", <<>>)

\* if (!step || typeof step.action !== "string")
InvalidStep(step) == step.action \in {"<null>", "<undefined>"}

\* [x, y, z].some(coord => isNaN(coord)) after parseInt of each
CoordsNaN(step) == step.form \in {"none", "inf"}

\* Math.max(1, Math.min(300, parseInt(step.seconds) || 1))
GeminiWaitSeconds(step) ==
    LET parsed == IF step.numeric /\ step.seconds # 0 THEN step.seconds ELSE 1
        capped == IF parsed < 300 THEN parsed ELSE 300
    IN IF capped > 1 THEN capped ELSE 1

\* The body of the for loop for steps[i].  next: "loop" the loop goes on at
\* once; "sleep", "follow", "goto" the executor is suspended in a timeout;
\* "hang" goToAndWait's promise can never resolve (new goals.GoalBlock threw
\* inside its async executor); "throw" the exception leaves executeSteps.
GeminiStepBody(S, t, visible) ==
    LET step == t.steps[t.i]
        gid == <<t.id, t.i>>
    IN IF InvalidStep(step)
       THEN [S |-> Say(S, "*", "g_skipping", ""), next |-> "loop"]
       ELSE CASE step.action = "wait" ->
              [S |-> [Say(S, "*", "g_waiting", "") EXCEPT !.waited = GeminiWaitSeconds(step)],
               next |-> "sleep"]
         [] step.action = "goto" ->
              IF CoordsNaN(step)
              THEN [S |-> Say(S, "*", "g_invalid_coords", ""), next |-> "loop"]
              ELSE LET S1 == Say(S, "*", "g_on_my_way", "")
                   IN IF GoalsDefined(S1)
                      THEN [S |-> SetGoal(S1, [type |-> "block", x |-> step.x,
                                               y |-> step.y, z |-> step.z, id |-> gid]),
                            next |-> "goto"]
                      ELSE [S |-> S1, next |-> "hang"]
         [] step.action = "follow" ->
              LET player == IF step.player # "" THEN step.player ELSE t.user
                  S1 == Say(S, "*", "g_following_for", player)
              IN IF ~visible
                 THEN [S |-> Say(S1, "*", "g_cant_see", player), next |-> "loop"]
                 ELSE LET S2 == Say(S1, "*", "g_following_for", player)
                      IN IF GoalsDefined(S2)
                         THEN [S |-> SetGoal(S2, [type |-> "follow", player |-> player,
                                                  id |-> gid]),
                               next |-> "follow"]
                         ELSE [S |-> S2, next |-> "throw"]
         [] step.action = "tpa" ->
              [S |-> Say(S, "*", "tpa_command",
                         IF step.player # "" THEN step.player ELSE t.user),
               next |-> "sleep"]
         [] OTHER ->
              [S |-> Say(S, "*", "g_unknown", step.action), next |-> "loop"]

\* executeSteps from steps[t.i] on, up to its next suspension, and what the
\* handler does when it returns or throws.  fatal: the unhandled rejection
\* of goToAndWait's executor ends the process (the default of Node 15 and
\* later) instead of being reported only.
RECURSIVE GeminiRun(_, _, _, _)
GeminiRun(S, t, visible, fatal) ==
    IF t.i > Len(t.steps)
    THEN PushAssistant(Say(S, "*", "g_finished", ""), t.user)
    ELSE LET r == GeminiStepBody(S, t, visible)
             S1 == NoteRan(S, r.S, t, r.next)
         IN CASE r.next = "loop" ->
                   GeminiRun(S1, [t EXCEPT !.i = @ + 1], visible, fatal)
              [] r.next = "sleep" -> [S1 EXCEPT !.spawn = [t EXCEPT !.pc = "gsleep"]]
              [] r.next = "follow" -> [S1 EXCEPT !.spawn = [t EXCEPT !.pc = "gfollow"]]
              [] r.next = "goto" -> [S1 EXCEPT !.spawn = [t EXCEPT !.pc = "ggoto"]]
              [] r.next = "hang" ->
                   [S1 EXCEPT !.spawn = [t EXCEPT !.pc = IF fatal THEN "dead" ELSE "hung"]]
              [] OTHER -> [S1 EXCEPT !.spawn = [t EXCEPT !.pc = "gconvo"]]

\* parseInstructionsLLM of the Gemini variant: one backend call, then
\* return parsed.steps || []
GeminiPlan(resp) ==
    IF resp.kind = "json" /\ resp.shape # "missing"
    THEN [shape |-> resp.shape, steps |-> resp.steps, asked |-> <<resp>>]
    ELSE [shape |-> "array", steps |-> <<>>, asked |-> <<resp>>]

\* if (steps.length) { await executeSteps(username, steps); ... }
GeminiAfterPlan(S, t, resp, visible, fatal) ==
    LET plan == GeminiPlan(resp)
        S1 == NotePlan(S, plan.asked, plan.steps)
    IN IF plan.shape = "array" /\ Len(plan.steps) > 0
       THEN GeminiRun(S1, [t EXCEPT !.steps = plan.steps, !.i = 1], visible, fatal)
       ELSE IF plan.shape = "string"
       THEN PushAssistant(Say(S1, "*", "g_no_steps", ""), t.user)
       ELSE [S1 EXCEPT !.spawn = [t EXCEPT !.pc = "gconvo"]]

\* a timeout of the executor has run out
GeminiAfterSleep(S, t, visible, fatal, reached) ==
    LET S1 == CASE t.pc = "gfollow" ->
                     Say(SetGoal(S, NoGoal), "*", "g_stopped_following", "")
                [] t.pc = "ggoto" ->
                     Say(S, "*", IF reached THEN "g_reached" ELSE "g_not_reached", "")
                [] OTHER -> S
    IN GeminiRun(S1, [t EXCEPT !.i = @ + 1], visible, fatal)

\* const reply = await geminiChat(convoPrompt, ...); bot.chat(reply);
\* memory.push(assistant).  ok: the backend answered; if not, geminiChat
\* catches the error and returns "I'm having trouble thinking right now.
\* Please try again later.", which is sent and logged like an answer.
GeminiAfterConvo(S, t, ok) ==
    PushAssistant(Say(S, "*", IF ok THEN "convo" ELSE "g_trouble", ""), t.user)

\* the food threshold of the health handler and of the interval
LowFood == 6

\* bot.food as a handler reads it: undefined before the server's first
\* update, a level from 0 to 20 after it
FoodLevels ==
    {[known |-> FALSE, level |-> 0], [known |-> TRUE, level |-> 3],
     [known |-> TRUE, level |-> 6], [known |-> TRUE, level |-> 20]}

\* bot.food !== undefined && bot.food < 6
FoodLow(food) == food.known /\ food.level < LowFood

\* the timer setInterval(..., 60_000) of the second spawn handler arms
FoodInterval ==
    [kind |-> "interval", user |-> "", player |-> "", gid |-> <<0, 0>>,
     disturbed |-> FALSE]

\* dynamicComplain(eventType) up to its await: geminiChat is called with
\* the prompt of the event; the event type enters the prompt only
dynamicComplain(S) == Suspend(S, "gcomplain", "", "chat", <<>>)

----------------------------------------------------------------------------
(* Inputs *)

\* the list commands, for every keyword the handlers look for
ListTexts ==
    {<<"trust", "bob">>, <<"Trust", "Alice">>, <<"untrust", "Alice">>,
     <<"untrust", "bob">>, <<"untrust", "TryChloroform">>,
     <<"ignore", "bob">>, <<"ignore", "TryChloroform">>,
     <<"unignore", "bob">>, <<"forgive", "bob">>}

OtherTexts ==
    {<<"status">>, <<"stop">>, <<"follow", "me">>, <<"hello">>}

WhisperTexts == ListTexts \cup OtherTexts

\* public chat lines: the same texts addressed to the bot, a list command
\* that also holds a status word, and a line that does not name the bot
ChatTexts ==
    {<<"phyll">> \o m : m \in ListTexts \cup OtherTexts}
    \cup {<<"Phyll", "trust", "bob", "status">>, <<"hello">>}

\* lines that reach the chat handlers without a user name
SenderlessTexts ==
    {<<"<TryChloroform>", "phyll", "trust", "bob">>,
     <<"[Server]", "phyll", "restarting">>}

\* what doc.people() can return for a text: nothing, or a player name in it
PeopleChoices(message) ==
    {<<>>} \cup {<<Lower(message[k])>> : k \in {j \in 1..Len(message) : message[j] \in Names}}

FollowAlice == [action |-> "follow", player |-> "Alice"]

FollowBob == [action |-> "follow", player |-> "bob"]

GotoSpawn == [action |-> "goto", x |-> 10, y |-> 64, z |-> 10, form |-> "int"]

GotoSky == [action |-> "goto", x |-> 0, y |-> 400, z |-> 0, form |-> "int"]

TpaAlice == [action |-> "tpa", player |-> "Alice"]

WaitFive == [action |-> "wait", seconds |-> 5, numeric |-> TRUE]

Dance == [action |-> "dance"]

\* an element of the steps array that is null, and one without an action
NullStep == [action |-> "<null>"]

NoActionStep == [action |-> "<undefined>"]

GotoFar == [action |-> "goto", x |-> 40000000, y |-> 64, z |-> 0, form |-> "int"]

GotoInfinite == [action |-> "goto", x |-> 0, y |-> 64, z |-> 0, form |-> "inf"]

GotoMissing == [action |-> "goto", x |-> 0, y |-> 0, z |-> 0, form |-> "none"]

GotoStrings == [action |-> "goto", x |-> 10, y |-> 64, z |-> 10, form |-> "str"]

WaitLong == [action |-> "wait", seconds |-> 120, numeric |-> TRUE]

WaitNegative == [action |-> "wait", seconds |-> -5, numeric |-> TRUE]

WaitZero == [action |-> "wait", seconds |-> 0, numeric |-> TRUE]

WaitText == [action |-> "wait", seconds |-> 0, numeric |-> FALSE]

\* the steps arrays the generative planner returns in SpecGate
GatePlans == {<<>>, <<FollowAlice>>, <<WaitFive>>}

\* the steps arrays the generative planner returns in SpecExec
ExecPlans ==
    {<<>>, <<FollowAlice>>, <<GotoSpawn>>, <<FollowAlice, FollowBob>>,
     <<FollowAlice, WaitFive>>, <<GotoSky, TpaAlice>>}

\* the instructions of SpecExec
ExecWhispers == {<<"follow", "me">>, <<"stop">>}

ExecChats ==
    {<<"phyll", "follow", "bob">>, <<"phyll", "stop">>,
     <<"phyll", "go", "to", "10", "64", "10">>,
     <<"phyll", "go", "to", "-70", "64", "10">>,
     <<"phyll", "follow", "bob!", "request">>,
     <<"phyll", "follow", "bob", "goto", "10", "64", "10">>}

\* memory.json as saveMemory writes it when the log is full:
\* JSON.stringify(memory.slice(-50))
FullLog == [k \in 1..MemoryCap |-> [role |-> "user", who |-> "Alice"]]

\* the messages of SpecLog
LogWhispers == {<<"hello">>, <<"follow", "me">>}

LogChats == {<<"phyll", "hello">>, <<"hello">>}

\* the instructions and the steps arrays of SpecPlan
PlanWhispers == {<<"follow", "me">>, <<"wait", "here">>}

\* the plans of SpecTrust
TrustPlans == {<<WaitFive, FollowAlice>>, <<FollowAlice, TpaAlice>>}

\* the messages and the plans of SpecStop
\* the whispers of SpecStop: the owner stops and ignores, Alice has the
\* agent follow her and tries the stop command
StopWhispers(u) ==
    IF u = ownerName THEN {<<"stop">>, <<"ignore", "TryChloroform">>}
    ELSE {<<"follow", "me">>, <<"stop">>}

StopChats ==
    {<<"phyll", "follow", "bob">>, <<"phyll", "stop">>,
     <<"phyll", "stop", "follow", "bob">>}

StopPlans == {<<FollowAlice>>, <<WaitFive>>}

PlanPlans ==
    {<<>>, <<FollowAlice>>, <<FollowAlice, WaitFive>>, <<WaitFive, Dance>>,
     <<NullStep, TpaAlice>>}

\* the characters of a raw line: word characters, the brackets, a blank
\* and a character that is none of these
NormAlphabet == {"a", "<", ">", " ", ":"}

RawLines == UNION {[1..n -> NormAlphabet] : n \in 0..MaxLineLen}

\* what a persisted file can be at start-up
FileForms == {"missing", "syntax", "other", "string", "array"}

\* the whispers of SpecLoad
LoadWhispers == {<<"trust", "bob">>, <<"hello">>, <<"follow", "me">>}

\* the chat lines of SpecGemini
GeminiLines ==
    {<<"<Alice>", "Phyll", "goto", "0", "400", "0">>,
     <<"<bob>", "Phyll", "follow", "me">>,
     <<"<bob>", "Phyll", "hello">>,
     <<"<TryChloroform>", "Phyll", "trust", "bob">>,
     <<"<Alice>", "phyll", "hello">>,
     <<"<Alice>", "hello">>,
     <<"[Server]", "Phyll", "restarting">>}

\* the steps arrays the backend returns in SpecGemini
GeminiPlans ==
    {<<>>, <<GotoSky, WaitFive>>, <<GotoFar>>, <<GotoInfinite, GotoMissing, WaitLong>>,
     <<GotoStrings>>, <<FollowAlice, WaitFive>>, <<NullStep, WaitZero>>,
     <<WaitNegative, Dance>>, <<WaitText, TpaAlice>>}

\* the backend's answers to the planning prompt: no usable answer, an
\* object without a steps array, or one of the given steps arrays
Responses(plans) ==
    {Response("sentinel", "missing", <<>>), Response("prose", "missing", <<>>),
     Response("badjson", "missing", <<>>), Response("json", "missing", <<>>),
     Response("json", "string", <<>>), Response("json", "object", <<>>)}
    \cup {Response("json", "array", p) : p \in plans}

GeminiResponses == Responses(GeminiPlans)

----------------------------------------------------------------------------
(* Actions *)

NoTimer ==
    [kind |-> "none", user |-> "", player |-> "", gid |-> <<0, 0>>,
     disturbed |-> FALSE]

Pre ==
    [trustedPlayers |-> trustedPlayers, ignoredPlayers |-> ignoredPlayers,
     memory |-> memory, goal |-> goal]

\* The action's result S becomes the state; t: the suspended instance the
\* action resumed (NoTask for an inbound event).  last.left: the instance
\* the action has left suspended, if any.
Commit(S, act, actor, sender, text, t, tm) ==
    LET rest == IF t.pc = "none" THEN tasks ELSE tasks \ {t}
        born == IF S.spawn.pc = "none" THEN {}
                ELSE IF t.pc = "none" THEN {[S.spawn EXCEPT !.id = nmsgs + 1]}
                ELSE {S.spawn}
    IN /\ Cardinality(rest \cup born) <= MaxTasks
       /\ trustedPlayers' = S.trustedPlayers
       /\ ignoredPlayers' = S.ignoredPlayers
       /\ memory' = S.memory
       /\ trustedFile' = S.trustedFile
       /\ ignoredFile' = S.ignoredFile
       /\ pathfinderLoaded' = S.pathfinderLoaded
       /\ goal' = S.goal
       /\ timers' = S.timers
       /\ tasks' = rest \cup born
       /\ nmsgs' = IF act \in {"whisper", "chat", "health", "hurt"}
                   THEN nmsgs + 1 ELSE nmsgs
       /\ last' = [act |-> act, actor |-> actor, sender |-> sender, text |-> text,
                   pre |-> Pre, out |-> S.out, calls |-> S.calls,
                   writes |-> S.writes, waited |-> S.waited, ran |-> S.ran,
                   asked |-> S.asked, plan |-> S.plan,
                   spawned |-> S.spawn.pc, task |-> t, timer |-> tm,
                   raw |-> <<>>, norm |-> NoNorm, threw |-> S.threw,
                   world |-> S.world, left |-> born]
       /\ UNCHANGED <<variant, sup, stores, nlpImported>>

\* a whisper event (only bot.js listens to whispers)
Whisper(username, message) ==
    /\ variant = "cerebras"
    /\ Commit(WithStores(Ctx, username, message,
                         WhisperCerebras(Ctx, username, message)),
              "whisper", username, username, message, NoTask, NoTimer)

\* a chat event
Chat(username, message, world) ==
    /\ variant \in Variants
    /\ \E people \in PeopleChoices(message) :
         LET S == CASE variant = "cerebras" -> ChatCerebras(CtxIn(world), username, message)
                    [] variant = "nlp" -> ChatNlp(CtxIn(world), username, message, people)
                    [] OTHER -> ChatArli(CtxIn(world), username, message)
         IN Commit(S, "chat", ChatActor(username, message), username,
                   ChatText(username, message), NoTask, NoTimer)

\* the planner's backend calls are over
PlanReturn(t, r1, r2, world) ==
    /\ t.pc = "plan"
    /\ LET p == parseInstructionsLLM(r1, r2)
       IN Commit(AfterPlan(NotePlan(CtxIn(world), p.asked, p.steps), t, p.steps),
                 "plan", t.user, t.user, <<>>, t, NoTimer)

\* The backend never answers a planning call: cerebrasChat awaits fetch
\* without a timeout or abort signal of its own, so the planner stays
\* suspended in that await.
BackendSilent(t) ==
    /\ t.pc = "plan"
    /\ Commit([Ctx EXCEPT !.spawn = [t EXCEPT !.pc = "silent"]], "silent",
              t.user, t.user, <<>>, t, NoTimer)

\* a slip: trust is read again before every step
StepTrustReread(t, world) ==
    /\ t.pc = "step"
    /\ t.user \in trustedPlayers
    /\ Commit(ExecStep(CtxIn(world), t), "step", t.user, t.user, <<>>, t, NoTimer)

\* a slip: the wait of a plan holds the event loop, as a synchronous sleep
\* would
StepBlocked(t, world) ==
    /\ t.pc = "step"
    /\ \A w \in tasks : w.pc # "wait"
    /\ Commit(ExecStep(CtxIn(world), t), "step", t.user, t.user, <<>>, t, NoTimer)

\* the pacing delay before steps[t.i], or the import of the pathfinder that
\* the step awaits, is over: the executor goes on
Step(t, world) ==
    /\ t.pc = "step"
    /\ Commit(ExecStep(CtxIn(world), t), "step", t.user, t.user, <<>>, t, NoTimer)

\* the timeout of a wait step has run out
WaitDone(t, world) ==
    /\ t.pc = "wait"
    /\ Commit(ExecWaitDone(CtxIn(world), t), "waitdone", t.user, t.user, <<>>,
              t, NoTimer)

\* the backend has answered the conversational prompt
ConvoReturn(t, ok, parts) ==
    /\ t.pc = "convo"
    /\ Commit(AfterConvo(Ctx, t, ok, parts), "convo", t.user, t.user, <<>>,
              t, NoTimer)

\* the 500 ms timeout after a part of a long answer has run out
PartSent(t) ==
    /\ t.pc = "part"
    /\ Commit(AfterPart(Ctx, t), "part", t.user, t.user, <<>>, t, NoTimer)

\* the oldest armed follow timer fires
TimerFire(world) ==
    /\ Len(timers) > 0
    /\ LET tm == Head(timers)
           S == FollowTimeout([CtxIn(world) EXCEPT !.timers = Tail(timers)], tm)
       IN Commit(S, "timer", tm.user, tm.user, <<>>, NoTask, tm)

\* the process has ended
Dead == \E t \in tasks : t.pc = "dead"

\* a chat line reaches bot.on('message')
GeminiMessage(line) ==
    /\ variant = "gemini"
    /\ ~Dead
    /\ Commit(MessageGemini(Ctx, line), "chat",
              IF Len(line) > 0 THEN BracketName(line[1]) ELSE "",
              IF Len(line) > 0 THEN BracketName(line[1]) ELSE "",
              IF Len(line) > 0 THEN Tail(line) ELSE line, NoTask, NoTimer)

\* geminiChat has answered the planning prompt
GeminiPlanReturn(t, resp, visible, fatal) ==
    /\ t.pc = "gplan"
    /\ ~Dead
    /\ Commit(GeminiAfterPlan(Ctx, t, resp, visible, fatal), "plan",
              t.user, t.user, <<>>, t, NoTimer)

\* a timeout of the executor runs out
GeminiWake(t, visible, fatal, reached) ==
    /\ t.pc \in {"gsleep", "gfollow", "ggoto"}
    /\ ~Dead
    /\ Commit(GeminiAfterSleep(Ctx, t, visible, fatal, reached), "wake",
              t.user, t.user, <<>>, t, NoTimer)

\* geminiChat has answered the conversational prompt, or has failed
GeminiConvoReturn(t, ok) ==
    /\ t.pc = "gconvo"
    /\ ~Dead
    /\ Commit(GeminiAfterConvo(Ctx, t, ok), "convo", t.user, t.user, <<>>, t, NoTimer)

\* The handle emits 'spawn': of the two bot.once('spawn') handlers (bot.js
\* 88-94, 109-120) the first loads plugins and the second registers the
\* autoEat logger and arms the food interval.  Both are removed after
\* their first run, and the interval is never cleared.
GeminiSpawn ==
    /\ variant = "gemini"
    /\ ~Dead
    /\ timers = <<>>
    /\ Commit([Ctx EXCEPT !.timers = <<FoodInterval>>], "spawn", "", "", <<>>,
              NoTask, NoTimer)

\* the food interval fires: bot.chat("My food level is low.") if the food
\* level is known and below 6; the interval stays armed
GeminiInterval(food) ==
    /\ variant = "gemini"
    /\ ~Dead
    /\ timers = <<FoodInterval>>
    /\ Commit(IF FoodLow(food) THEN Say(Ctx, "*", "g_food_low", "") ELSE Ctx,
              "interval", "", "", <<>>, NoTask, FoodInterval)

\* bot.on('health'): dynamicComplain('I am hungry') if the food level is
\* known and below 6
GeminiHealth(food) ==
    /\ variant = "gemini"
    /\ ~Dead
    /\ Commit(IF FoodLow(food) THEN dynamicComplain(Ctx) ELSE Ctx,
              "health", "", "", <<>>, NoTask, NoTimer)

\* bot.on('entityHurt'): dynamicComplain('I got hurt') if the entity is
\* the bot's own
GeminiHurt(self) ==
    /\ variant = "gemini"
    /\ ~Dead
    /\ Commit(IF self THEN dynamicComplain(Ctx) ELSE Ctx,
              "hurt", "", "", <<>>, NoTask, NoTimer)

\* dynamicComplain after its await: bot.chat(line), where line is the
\* backend's sentence or, when the call failed, the sentence geminiChat
\* returns from its catch.  Nothing is logged.  (The catch of
\* dynamicComplain, bot.chat('Ow.'), needs geminiChat to reject, which its
\* own try/catch rules out.)
GeminiComplainReturn(t, ok) ==
    /\ t.pc = "gcomplain"
    /\ ~Dead
    /\ Commit(Say(Ctx, "*", IF ok THEN "complaint" ELSE "g_trouble", ""),
              "complain", "", "", <<>>, t, NoTimer)

StartLast ==
    [act |-> "init", actor |-> "", sender |-> "", text |-> <<>>,
     pre |-> [trustedPlayers |-> trustedPlayers, ignoredPlayers |-> ignoredPlayers,
              memory |-> memory, goal |-> NoGoal],
     out |-> <<>>, calls |-> <<>>, writes |-> <<>>, waited |-> 0,
     ran |-> <<>>, asked |-> <<>>, plan |-> <<>>, spawned |-> "none",
     task |-> NoTask, timer |-> NoTimer, raw |-> <<>>, norm |-> NoNorm,
     threw |-> FALSE, world |-> Offstage, left |-> {}]

----------------------------------------------------------------------------
(* The connection supervisor: index.mjs (part_004) and the earlier entry   *)
(* script part_001.  prog: "index" or "simple".                            *)

\* bot.once('spawn'), bot.on('kicked'), bot.on('error'), bot.on('end')
LifecycleSubs == {"spawn", "kicked", "error", "end"}

\* The subscriptions createMineflayerBot puts on the handle it creates
\* (part_004 99-149); part_001 registers its handlers, the chat commands
\* among them, once on its only handle (part_001 43-114).
InstallHandlers(prog) ==
    IF prog = "index" THEN LifecycleSubs ELSE LifecycleSubs \cup {"chat"}

\* the supervisor after the entry script has created its first handle
StartSup(prog, auto) ==
    [prog |-> prog, auto |-> auto, attempts |-> 1, created |-> 1,
     state |-> "connecting", wasUp |-> FALSE,
     subs |-> <<InstallHandlers(prog)>>, restarting |-> FALSE, stimers |-> <<>>,
     lost |-> FALSE, failed |-> 0, waited |-> 0, delays |-> <<>>]

\* scheduleReconnect()
scheduleReconnect(s) ==
    IF s.restarting THEN s
    ELSE [s EXCEPT !.restarting = TRUE,
                   !.stimers = Append(@, [kind |-> "recreate", delay |-> 5000])]

\* bot.on('end', ...) of the two scripts
EndHandler(s) ==
    IF "end" \notin s.subs[s.created] \/ ~s.auto THEN s
    ELSE IF s.prog = "index" THEN scheduleReconnect(s)
    ELSE [s EXCEPT !.stimers = Append(@, [kind |-> "log", delay |-> 5000])]

\* The callback of a supervisor timer.  thrown: createBot throws.
\* "recreate": try { await createMineflayerBot() } catch { restarting =
\* false; setTimeout(scheduleReconnect, 10000) } finally { restarting = false }
\* "reschedule": scheduleReconnect().  "log": console.log only (part_001:
\* 'You would need to recreate the bot here').
TimerCallback(s, tm, thrown) ==
    CASE tm.kind = "recreate" /\ ~thrown ->
           [s EXCEPT !.attempts = @ + 1, !.created = @ + 1,
                     !.state = "connecting", !.wasUp = FALSE,
                     !.subs = Append(@, InstallHandlers(s.prog)),
                     !.restarting = FALSE, !.lost = FALSE,
                     !.delays = Append(@, s.waited + tm.delay), !.waited = 0]
      [] tm.kind = "recreate" /\ thrown ->
           [s EXCEPT !.attempts = @ + 1, !.restarting = FALSE, !.lost = FALSE,
                     !.failed = @ + 1,
                     !.stimers = Append(@, [kind |-> "reschedule", delay |-> 10000]),
                     !.delays = Append(@, s.waited + tm.delay), !.waited = 0]
      [] tm.kind = "reschedule" ->
           [scheduleReconnect(s) EXCEPT !.waited = @ + tm.delay]
      [] OTHER -> s

SupCommitThrew(s, act, threw) ==
    /\ sup' = s
    /\ last' = [StartLast EXCEPT !.act = act, !.threw = threw]
    /\ UNCHANGED <<variant, trustedPlayers, ignoredPlayers, memory, trustedFile,
                   ignoredFile, pathfinderLoaded, goal, timers, tasks, nmsgs,
                   stores, nlpImported>>

\* a supervisor action in which nothing is thrown
SupCommit(s, act) == SupCommitThrew(s, act, FALSE)

\* The handle logs in and the spawn handler runs.  In index.mjs (part_004
\* 99-134) the handler is async and its last statement calls
\* setupTeleportAutoAccept(bot), a name that nothing in the file declares
\* or imports: the call throws a ReferenceError, the handler's promise
\* rejects and nobody handles the rejection, and no listener has been added
\* to the handle.  fatal: the unhandled rejection ends the process (the
\* default of Node 15 and later) instead of being reported only.  The spawn
\* handlers of part_001 (22-61) only log and load plugins.
SupSpawn(fatal) ==
    /\ sup.state = "connecting"
    /\ "spawn" \in sup.subs[sup.created]
    /\ fatal => sup.prog = "index"
    /\ SupCommitThrew([sup EXCEPT !.state = IF fatal THEN "dead" ELSE "up",
                                  !.wasUp = TRUE, !.failed = 0, !.delays = <<>>],
                      "sup_spawn", sup.prog = "index")

\* The connection is lost through a kick or an error: the handle emits
\* 'kicked' or 'error', whose handlers only log (part_004 136-142, part_001
\* 75-77, 89-91), and its 'end' event is due.
SupLose(cause) ==
    /\ sup.state \in {"connecting", "up"}
    /\ sup.attempts < MaxConns
    /\ SupCommit([sup EXCEPT !.state = "closing", !.lost = sup.auto],
                 "sup_" \o cause)

\* the handle emits 'end': after a kick or an error, or on its own
SupEnd ==
    /\ \/ sup.state = "closing"
       \/ sup.state \in {"connecting", "up"} /\ sup.attempts < MaxConns
    /\ SupCommit([EndHandler(sup) EXCEPT !.state = "ended", !.lost = sup.auto,
                                         !.failed = IF sup.wasUp THEN 0 ELSE @ + 1],
                 "sup_end")

\* the oldest supervisor timer runs out
SupTimerFire(thrown) ==
    /\ sup.state # "dead"
    /\ Len(sup.stimers) > 0
    /\ thrown => sup.attempts + 1 < MaxConns
    /\ SupCommit(TimerCallback([sup EXCEPT !.stimers = Tail(@)],
                               Head(sup.stimers), thrown),
                 "sup_timer")

\* A handle whose connection is over emits 'end' once more while a
\* supervisor timer is armed: its listener (part_004 144-149) runs again.
SupEndAgain ==
    /\ sup.prog = "index"
    /\ sup.state = "ended"
    /\ sup.stimers # <<>>
    /\ SupCommit(EndHandler(sup), "sup_end_again")

\* Any armed supervisor timer runs out: the 5 s and the 10 s timers armed at
\* different moments can be due in either order.
SupTimerFireAt(k, thrown) ==
    /\ sup.state # "dead"
    /\ k \in 1..Len(sup.stimers)
    /\ thrown => sup.attempts + 1 < MaxConns
    /\ sup.attempts < MaxConns
    /\ SupCommit(TimerCallback(
                    [sup EXCEPT !.stimers = SubSeq(@, 1, k - 1) \o SubSeq(@, k + 1, Len(@))],
                    sup.stimers[k], thrown),
                 "sup_timer")

\* The state after start-up.  trustedPlayers is [ownerName] or what
\* trusted.json held; ignoredPlayers is [] or what ignored.json held;
\* memory is [] or what memory.json held.
Start(vs, trustedFiles, logs) ==
    /\ variant \in vs
    /\ trustedFile \in trustedFiles
    /\ ignoredFile = NoFile
    /\ trustedPlayers = LoadTrusted(trustedFile)
    /\ ignoredPlayers = LoadIgnored(ignoredFile)
    /\ memory \in logs
    /\ pathfinderLoaded = FALSE
    /\ goal = NoGoal
    /\ timers = <<>>
    /\ tasks = {}
    /\ nmsgs = 0
    /\ last = StartLast
    /\ sup = StartSup("none", FALSE)
    /\ stores = [memory |-> IF memory = <<>> THEN "missing" ELSE "array",
                 trusted |-> trustedFile.form, ignored |-> ignoredFile.form]
    /\ nlpImported \in (IF variant = "nlp" THEN BOOLEAN ELSE {TRUE})

\* the suspended handlers and the timers run in every specification
Resume(plans) ==
    \/ \E t \in tasks, r1 \in Responses(plans), r2 \in Responses(plans),
          world \in Worlds : PlanReturn(t, r1, r2, world)
    \/ \E t \in tasks, world \in Worlds : Step(t, world)
    \/ \E t \in tasks, world \in Worlds : WaitDone(t, world)
    \/ \E t \in tasks, ok \in BOOLEAN, parts \in 0..MaxParts : ConvoReturn(t, ok, parts)
    \/ \E t \in tasks : PartSent(t)
    \/ \E world \in Worlds : TimerFire(world)

(* SpecGate: the authorization gate of the three variants, every sender   *)
(* with every list command.                                                *)
InitGate == Start(Variants, {NoFile, FileOf({ownerName, "Alice"})}, {<<>>})

NextGate ==
    \/ /\ nmsgs < GateMaxMsgs
       /\ \E u \in Names \cup {BotUsername}, m \in WhisperTexts : Whisper(u, m)
    \/ /\ nmsgs < GateMaxMsgs
       /\ \E u \in Names \cup {BotUsername}, m \in ChatTexts, world \in Worlds :
             Chat(u, m, world)
    \/ /\ nmsgs < GateMaxMsgs
       /\ \E m \in SenderlessTexts, world \in Worlds : Chat("", m, world)
    \/ Resume(GatePlans)

SpecGate == InitGate /\ [][NextGate]_vars

(* SpecExec: the step executor of bot.js and part_000 under instructions  *)
(* of trusted players.                                                     *)
InitExec == Start({"cerebras", "nlp"}, {FileOf({ownerName, "Alice"})}, {<<>>})

NextExec ==
    \/ /\ nmsgs < ExecMaxMsgs
       /\ \E m \in ExecWhispers : Whisper(ownerName, m)
    \/ /\ nmsgs < ExecMaxMsgs
       /\ variant = "nlp"
       /\ \E m \in ExecChats, world \in Worlds : Chat(ownerName, m, world)
    \/ Resume(ExecPlans)

SpecExec == InitExec /\ [][NextExec]_vars

(* SpecPlan: the whisper handler of bot.js with its planner and a backend  *)
(* that answers anything or nothing.  A continuation that is ready to run *)
(* does run: the fairness of the event loop.                              *)
InitPlan == Start({"cerebras"}, {FileOf({ownerName, "Alice"})}, {<<>>})

NextPlan ==
    \/ /\ nmsgs < PlanMaxMsgs
       /\ \E u \in {ownerName, "Alice"}, m \in PlanWhispers : Whisper(u, m)
    \/ \E t \in tasks : BackendSilent(t)
    \/ Resume(PlanPlans)

SpecPlan == InitPlan /\ [][NextPlan]_vars /\ WF_vars(Resume(PlanPlans))

(* SpecStop: the stop command of bot.js and part_000, from the owner and   *)
(* from a trusted player, before and after the owner's 'ignore' of their   *)
(* own name.                                                               *)
InitStop ==
    /\ variant \in {"cerebras", "nlp"}
    /\ trustedFile = FileOf({ownerName, "Alice"})
    /\ ignoredFile = NoFile
    /\ trustedPlayers = LoadTrusted(trustedFile)
    /\ ignoredPlayers = LoadIgnored(ignoredFile)
    /\ memory = <<>>
    /\ pathfinderLoaded = FALSE
    /\ goal = NoGoal
    /\ timers = <<>>
    /\ tasks = {}
    /\ nmsgs = 0
    /\ last = StartLast
    /\ sup = StartSup("none", FALSE)
    /\ stores = [memory |-> "missing", trusted |-> trustedFile.form,
                 ignored |-> ignoredFile.form]
    /\ nlpImported \in (IF variant = "nlp" THEN BOOLEAN ELSE {TRUE})

NextStop ==
    \/ /\ nmsgs < StopMaxMsgs
       /\ \E u \in {ownerName, "Alice"} : \E m \in StopWhispers(u) : Whisper(u, m)
    \/ /\ nmsgs < StopMaxMsgs
       /\ variant = "nlp"
       /\ \E u \in {ownerName, "Alice"}, m \in StopChats, world \in Worlds :
             Chat(u, m, world)
    \/ Resume(StopPlans)

SpecStop == InitStop /\ [][NextStop]_vars

(* SpecTrust: a trusted player's instruction in flight while the owner     *)
(* takes the player off the trusted list.                                  *)
InitTrust == Start({"cerebras"}, {FileOf({ownerName, "Alice"})}, {<<>>})

NextTrust ==
    \/ /\ nmsgs < TrustMaxMsgs
       /\ Whisper("Alice", <<"follow", "me">>)
    \/ /\ nmsgs < TrustMaxMsgs
       /\ Whisper(ownerName, <<"untrust", "Alice">>)
    \/ Resume(TrustPlans)

SpecTrust == InitTrust /\ [][NextTrust]_vars

(* SpecNorm: the user-name fallback of the chat handlers on every raw     *)
(* line up to a length, one line per behaviour.                            *)
InitNorm == Start({"cerebras", "arli", "gemini"}, {NoFile}, {<<>>})

\* the handler reads the user name and the text out of the line
Normalize(line) ==
    /\ last.act = "init"
    /\ last' = [last EXCEPT !.act = "normalize", !.raw = line,
                !.norm = CASE variant = "gemini" -> MatchNameGemini(line)
                           [] variant = "arli" -> MatchNameArli(line)
                           [] OTHER -> MatchName(line)]
    /\ UNCHANGED <<variant, trustedPlayers, ignoredPlayers, memory, trustedFile,
                   ignoredFile, pathfinderLoaded, goal, timers, tasks, nmsgs, sup,
                   stores, nlpImported>>

NextNorm == last.act = "init" /\ \E line \in RawLines : Normalize(line)

SpecNorm == InitNorm /\ [][NextNorm]_vars

(* SpecSup: the connection supervisor.  Timers run out, and a handle that *)
(* was kicked or had an error ends: the fairness of timers and of the     *)
(* client library.                                                        *)
InitSup ==
    /\ variant = "cerebras"
    /\ trustedFile = NoFile
    /\ ignoredFile = NoFile
    /\ trustedPlayers = LoadTrusted(trustedFile)
    /\ ignoredPlayers = LoadIgnored(ignoredFile)
    /\ memory = <<>>
    /\ pathfinderLoaded = FALSE
    /\ goal = NoGoal
    /\ timers = <<>>
    /\ tasks = {}
    /\ nmsgs = 0
    /\ last = StartLast
    /\ \E prog \in {"index", "simple"}, auto \in BOOLEAN : sup = StartSup(prog, auto)
    /\ stores = [memory |-> "missing", trusted |-> "missing", ignored |-> "missing"]
    /\ nlpImported = TRUE

NextSup ==
    \/ \E fatal \in BOOLEAN : SupSpawn(fatal)
    \/ \E cause \in {"kicked", "error"} : SupLose(cause)
    \/ SupEnd
    \/ \E thrown \in BOOLEAN : SupTimerFire(thrown)

SpecSup ==
    /\ InitSup /\ [][NextSup]_vars
    /\ WF_vars(SupEnd) /\ WF_vars(\E thrown \in BOOLEAN : SupTimerFire(thrown))

(* SpecEnds: the supervisor of index.mjs when an ended handle can emit     *)
(* 'end' again while a timer is armed.                                     *)
InitEnds == InitSup /\ sup.prog = "index"

NextEnds ==
    \/ \E fatal \in BOOLEAN : SupSpawn(fatal)
    \/ \E cause \in {"kicked", "error"} : SupLose(cause)
    \/ SupEnd
    \/ SupEndAgain
    \/ \E k \in 1..Len(sup.stimers), thrown \in BOOLEAN : SupTimerFireAt(k, thrown)

SpecEnds == InitEnds /\ [][NextEnds]_vars

(* SpecLoad: start-up of bot.js (Cerebras variant) on every form of the    *)
(* three files, and the whispers after it.                                 *)
InitLoad ==
    /\ variant = "cerebras"
    /\ trustedFile \in {NoFile, CorruptFile, NonArrayFile, FileOf({ownerName, "Alice"}),
                       StringFile({ownerName})}
    /\ ignoredFile \in {NoFile, CorruptFile, NonArrayFile, FileOf({"bob"}),
                       StringFile({"bob"})}
    /\ \E form \in FileForms :
         /\ memory = LoadMemory(form, <<[role |-> "user", who |-> "Alice"]>>)
         /\ stores = [memory |-> form, trusted |-> trustedFile.form,
                      ignored |-> ignoredFile.form]
    /\ trustedPlayers = LoadTrusted(trustedFile)
    /\ ignoredPlayers = LoadIgnored(ignoredFile)
    /\ pathfinderLoaded = FALSE
    /\ goal = NoGoal
    /\ timers = <<>>
    /\ tasks = {}
    /\ nmsgs = 0
    /\ last = StartLast
    /\ sup = StartSup("none", FALSE)
    /\ nlpImported = TRUE

NextLoad ==
    \/ /\ nmsgs < LoadMaxMsgs
       /\ \E u \in {ownerName, "bob"}, m \in LoadWhispers : Whisper(u, m)
    \/ Resume(GatePlans)

SpecLoad == InitLoad /\ [][NextLoad]_vars

(* SpecLog: the conversation log of bot.js (Cerebras variant) when          *)
(* memory.json held a full log at start-up.                                *)
InitLog == Start({"cerebras"}, {FileOf({ownerName, "Alice"})}, {FullLog})

NextLog ==
    \/ /\ nmsgs < LogMaxMsgs
       /\ \E u \in {"Alice", "bob"}, m \in LogWhispers : Whisper(u, m)
    \/ /\ nmsgs < LogMaxMsgs
       /\ \E m \in LogChats, world \in Worlds : Chat("bob", m, world)
    \/ Resume(GatePlans)

SpecLog == InitLog /\ [][NextLog]_vars

(* SpecGemini: the Gemini variant of bot.js.                                *)
InitGemini == Start({"gemini"}, {NoFile, FileOf({ownerName, "Alice"})}, {<<>>})

NextGemini ==
    \/ /\ nmsgs < GeminiMaxMsgs
       /\ \E line \in GeminiLines : GeminiMessage(line)
    \/ \E t \in tasks, resp \in GeminiResponses, visible \in BOOLEAN, fatal \in BOOLEAN :
          GeminiPlanReturn(t, resp, visible, fatal)
    \/ \E t \in tasks, visible \in BOOLEAN, fatal \in BOOLEAN, reached \in BOOLEAN :
          GeminiWake(t, visible, fatal, reached)
    \/ \E t \in tasks, ok \in BOOLEAN : GeminiConvoReturn(t, ok)
    \/ GeminiSpawn
    \/ \E food \in FoodLevels : GeminiInterval(food)
    \/ /\ nmsgs < GeminiMaxMsgs
       /\ \E food \in FoodLevels : GeminiHealth(food)
    \/ /\ nmsgs < GeminiMaxMsgs
       /\ \E self \in BOOLEAN : GeminiHurt(self)
    \/ \E t \in tasks, ok \in BOOLEAN : GeminiComplainReturn(t, ok)

SpecGemini == InitGemini /\ [][NextGemini]_vars

----------------------------------------------------------------------------
(* What the properties below read from `last` *)

\* the last action handled an inbound event
Arrival == last.act \in {"whisper", "chat"}

\* ... and the event passed the handler's filters (a sender other than the
\* bot itself, not ignored, and in public chat a text that names the bot)
Handled ==
    /\ Arrival
    /\ last.actor \notin {"", BotUsername}
    /\ last.actor \notin last.pre.ignoredPlayers
    /\ last.act = "chat" => Mentioned(last.text)

\* ... in a handler that has an owner block (the public chat handler of
\* bot.js has none)
GateHandled == Handled /\ ~(variant = "cerebras" /\ last.act = "chat")

Kinds(out) == {out[k].kind : k \in 1..Len(out)}

ListReplies ==
    {"now_trusted", "already_trusted", "no_longer_trusted", "wasnt_trusted",
     "now_ignored", "already_ignored", "no_longer_ignored", "wasnt_ignored"}

\* the list command the owner block reads in a text, in the order of its tests
AddTrust(text) == MatchWord(text, {"trust"})

DelTrust(text) == MatchWord(text, {"forget", "untrust", "revoke"})

AddIgnore(text) == MatchWord(text, {"ignore"})

DelIgnore(text) == MatchWord(text, {"unignore", "forgive"})

IsDelTrust(text) == AddTrust(text).at = 0 /\ DelTrust(text).at # 0

IsDelIgnore(text) ==
    /\ AddTrust(text).at = 0 /\ DelTrust(text).at = 0
    /\ AddIgnore(text).at = 0 /\ DelIgnore(text).at # 0

IsListCommand(text) ==
    \/ AddTrust(text).at # 0 \/ DelTrust(text).at # 0
    \/ AddIgnore(text).at # 0 \/ DelIgnore(text).at # 0

----------------------------------------------------------------------------
(* C1 *)

\* C1 (as claimed): a message whose actor is not in the trusted set when it
\* is handled produces no plan, no setGoal call and no teleport request, and
\* if its text holds an action verb the only reply is the ask-the-owner
\* refusal and the handler stops.  (bot.js and part_000.)
C1_UntrustedNeverActs ==
    (/\ variant \in {"cerebras", "nlp"}
     /\ Handled
     /\ last.actor \notin last.pre.trustedPlayers)
    => /\ last.spawned \notin {"plan", "step", "wait"}
       /\ last.plan = <<>> /\ last.ran = <<>>
       /\ last.calls = <<>>
       /\ "tpa_command" \notin Kinds(last.out)
       /\ HasWord(last.text, ActionVerbs)
            => /\ Len(last.out) = 1
               /\ last.out[1].kind = "refuse" /\ last.out[1].arg = ownerName
               /\ last.spawned = "none"

----------------------------------------------------------------------------
(* C2 *)

\* the goal the fired timer's step installed has been replaced by another goal
Superseded ==
    /\ last.act = "timer"
    /\ last.pre.goal.type # "none"
    /\ last.pre.goal.id # last.timer.gid

\* C2 (as claimed): a follow timer that fires after a different goal (a block
\* goal or a newer follow goal) replaced its own leaves the current goal
\* unchanged and sends no 'stopped following' reply.
C2_SupersededTimerDoesNothing ==
    Superseded => goal = last.pre.goal /\ last.out = <<>> /\ last.calls = <<>>

----------------------------------------------------------------------------
(* C3 *)

\* a step that the last action ran was a follow or goto step that
\* installed its goal
Installed(r) == r.kinds \cap {"following", "going_to"} # {}

InstalledGoal == \E k \in 1..Len(last.ran) : Installed(last.ran[k])

\* C3: a goal-setting step first calls setGoal(null) and then installs its own
\* goal, these two calls and no other; it is the last thing its action does
\* to the controller, so that right after the step the controller's goal is
\* that step's goal; no action installs a goal without clearing first.
C3_ClearThenInstall ==
    /\ \A k \in 1..Len(last.ran) : Installed(last.ran[k]) =>
         /\ last.ran[k].goals = <<NoGoal, goal>>
         /\ goal.type = (IF last.ran[k].step.action = "follow"
                         THEN "follow" ELSE "block")
         /\ goal.id = last.ran[k].at
         /\ last.calls[Len(last.calls)] = goal
    /\ \A k \in 1..Len(last.calls) :
         last.calls[k].type # "none" => k > 1 /\ last.calls[k - 1] = NoGoal

\* step B installed its goal while the goal of another step A was current
C3_Witness ==
    /\ InstalledGoal
    /\ last.pre.goal.type # "none"
    /\ goal.id # last.pre.goal.id

----------------------------------------------------------------------------
(* C4 *)

\* C4 (as claimed): when the timer of a follow step fires and no other
\* goal-setting step and no stop command ran since the step installed its
\* goal, the timer calls setGoal(null) once and sends 'Stopped following' once.
C4_UndisturbedTimerStops ==
    (last.act = "timer" /\ ~last.timer.disturbed)
    => /\ last.calls = <<NoGoal>>
       /\ Len(last.out) = 1
       /\ last.out[1].kind = "stopped_following"
       /\ last.out[1].arg = last.timer.player

----------------------------------------------------------------------------
(* C5 *)

\* C5 (as claimed): an inbound event of an actor who is in the ignored set
\* gets no reply and makes no entry in the conversation log, on any channel.
C5_IgnoredGetsNothing ==
    (Arrival /\ last.sender \in last.pre.ignoredPlayers)
    => last.out = <<>> /\ memory = last.pre.memory

----------------------------------------------------------------------------
(* C6 *)

\* C6: the trusted set and the ignored set change only in the handling of a
\* message whose actor is the owner; every other action leaves both unchanged.
C6_OnlyOwnerChangesLists ==
    (trustedPlayers # last.pre.trustedPlayers
     \/ ignoredPlayers # last.pre.ignoredPlayers)
    => Arrival /\ last.actor = ownerName

\* a trusted player other than the owner sent a list command; it was handled
\* (logged as a user turn) and changed neither set
C6_Witness ==
    /\ GateHandled
    /\ last.actor # ownerName
    /\ last.actor \in last.pre.trustedPlayers
    /\ IsListCommand(last.text)
    /\ memory # last.pre.memory
    /\ trustedPlayers = last.pre.trustedPlayers
    /\ ignoredPlayers = last.pre.ignoredPlayers

----------------------------------------------------------------------------
(* C7 *)

\* C7 (as claimed): the owner cannot be removed from the trusted set, and a
\* message of the owner is never refused as coming from an untrusted player.
C7_OwnerAlwaysTrusted ==
    /\ ownerName \in trustedPlayers
    /\ (Arrival /\ last.actor = ownerName)
         => Kinds(last.out) \cap {"refuse", "dad_refuse"} = {}

----------------------------------------------------------------------------
(* C8 *)

\* C8 (as claimed): the owner's add-trust command for a name that is already
\* trusted leaves the set unchanged and replies '<name> is already trusted.';
\* the owner's remove-trust command for a name that is not trusted leaves the
\* set unchanged and replies '<name> wasn't trusted anyway.'.
C8_IdempotentTrustCommands ==
    (GateHandled /\ last.actor = ownerName)
    => /\ (AddTrust(last.text).at # 0
           /\ AddTrust(last.text).name \in last.pre.trustedPlayers)
            => /\ trustedPlayers = last.pre.trustedPlayers
               /\ Kinds(last.out) = {"already_trusted"}
               /\ \A k \in 1..Len(last.out) :
                     last.out[k].arg = AddTrust(last.text).name
       /\ (IsDelTrust(last.text)
           /\ DelTrust(last.text).name \notin last.pre.trustedPlayers)
            => /\ trustedPlayers = last.pre.trustedPlayers
               /\ Kinds(last.out) = {"wasnt_trusted"}
               /\ \A k \in 1..Len(last.out) :
                     last.out[k].arg = DelTrust(last.text).name

----------------------------------------------------------------------------
(* C9 *)

\* C9 (as claimed): the owner's remove-ignore command ('unignore P' or
\* 'forgive P') takes P out of the ignored set and replies 'P is no longer
\* ignored.' when P was in it, and leaves the set unchanged and replies that
\* P wasn't ignored when P was not.
C9_RemoveIgnore ==
    (GateHandled /\ last.actor = ownerName /\ variant \in {"cerebras", "nlp"}
     /\ IsDelIgnore(last.text))
    => LET P == DelIgnore(last.text).name
       IN IF P \in last.pre.ignoredPlayers
          THEN /\ P \notin ignoredPlayers
               /\ Len(last.out) = 1
               /\ last.out[1].kind = "no_longer_ignored" /\ last.out[1].arg = P
          ELSE /\ ignoredPlayers = last.pre.ignoredPlayers
               /\ Len(last.out) = 1
               /\ last.out[1].kind = "wasnt_ignored" /\ last.out[1].arg = P

----------------------------------------------------------------------------
(* C10 *)

\* C10 (as claimed): an owner's message that matches a list-management
\* pattern ends with the one list-command reply: no log entry, no planner
\* call, no plan, no goal change and no other reply.
C10_ListCommandIsTerminal ==
    (GateHandled /\ last.actor = ownerName /\ IsListCommand(last.text))
    => /\ Len(last.out) = 1
       /\ last.out[1].kind \in ListReplies
       /\ memory = last.pre.memory
       /\ last.spawned = "none"
       /\ last.calls = <<>>
       /\ goal = last.pre.goal

----------------------------------------------------------------------------
(* C11 *)

\* the last action rewrote the named file with the named list before it sent
\* any reply
WroteFirst(file, list) ==
    \E k \in 1..Len(last.writes) :
        last.writes[k] = [file |-> file, list |-> list, replies |-> 0]

\* C11: what a restart would load from trusted.json and ignored.json equals
\* the in-memory sets in every state; an action that changes a set rewrites
\* its file with the new set before it sends a reply; and the owner's
\* 'trust P' with P absent adds exactly P, writes the file and replies
\* 'P is now trusted'.
C11_ListsPersisted ==
    /\ LoadTrusted(trustedFile) = trustedPlayers
    /\ LoadIgnored(ignoredFile) = ignoredPlayers
    /\ trustedPlayers # last.pre.trustedPlayers
         => WroteFirst("trusted", trustedPlayers)
    /\ ignoredPlayers # last.pre.ignoredPlayers
         => WroteFirst("ignored", ignoredPlayers)
    /\ (/\ GateHandled /\ last.actor = ownerName
        /\ AddTrust(last.text).at # 0
        /\ AddTrust(last.text).name \notin last.pre.trustedPlayers)
         => /\ trustedPlayers = last.pre.trustedPlayers \cup {AddTrust(last.text).name}
            /\ trustedFile = FileOf(trustedPlayers)
            /\ Len(last.out) >= 1
            /\ last.out[1].kind = "now_trusted"
            /\ last.out[1].arg = AddTrust(last.text).name

\* the owner's 'trust bob' was handled while no trusted.json existed
C11_Witness ==
    /\ GateHandled /\ last.actor = ownerName
    /\ AddTrust(last.text).at # 0
    /\ "bob" \in trustedPlayers \ last.pre.trustedPlayers
    /\ last.writes # <<>>
    /\ ~ignoredFile.exists

----------------------------------------------------------------------------
(* C12 *)

\* a goto step whose coordinates are out of range or not finite numbers
BadCoords(step) ==
    /\ step.action = "goto"
    /\ \/ step.form \in {"none", "inf"}
       \/ /\ step.form = "int"
          /\ \/ step.x > 30000000 \/ step.x < -30000000
             \/ step.z > 30000000 \/ step.z < -30000000
             \/ step.y < -64 \/ step.y > 320

\* C12 (as claimed): a goto step with such coordinates is rejected with a
\* reply and skipped: the step makes no setGoal call, its only reply is a
\* rejection, the executor goes on, and the goal stays as it was.
C12_BadCoordsRejected ==
    \A k \in 1..Len(last.ran) :
        BadCoords(last.ran[k].step)
        => /\ last.ran[k].calls = 0
           /\ last.ran[k].kinds # {}
           /\ last.ran[k].kinds \subseteq {"coords_wrong", "coords_far", "g_invalid_coords"}
           /\ last.ran[k].next \in {"loop", "continue"}

----------------------------------------------------------------------------
(* C13 *)

\* C13 (as claimed): whatever the seconds field of a wait step holds, the
\* timeout the executor starts for it is a whole number of seconds from 1
\* to 30.
C13_WaitClamped ==
    (\E k \in 1..Len(last.ran) : last.ran[k].step.action = "wait")
    => last.waited \in 1..30

----------------------------------------------------------------------------
(* C14 *)

\* C14 (as claimed): the conversation log never holds more than 50 entries,
\* after appends of assistant turns as well as of user turns.
C14_LogBounded == Len(memory) <= MemoryCap

----------------------------------------------------------------------------
(* C15 *)

\* C15 (as claimed): the planner asks the backend with the normal prompt;
\* when that answer holds an object with a steps array it returns those
\* steps without a second call; otherwise it asks exactly once more with the
\* strict prompt and returns that answer's steps when it holds a steps array
\* (prose first and then a valid plan gives that plan), the empty plan if not.
C15_RetryOnce ==
    last.act = "plan"
    => /\ Len(last.asked) \in 1..2
       /\ ValidPlan(last.asked[1])
            => Len(last.asked) = 1 /\ last.plan = last.asked[1].steps
       /\ ~ValidPlan(last.asked[1])
            => /\ Len(last.asked) = 2
               /\ last.plan = IF ValidPlan(last.asked[2])
                              THEN last.asked[2].steps ELSE <<>>

----------------------------------------------------------------------------
(* C16 *)

\* a handler is suspended in parseInstructionsLLM
InPlanner == \E t \in tasks : t.pc \in {"plan", "silent"}

\* C16 (as claimed): whatever the backend does, an error, the sentinel,
\* unparseable text or no response at all, the planner eventually returns
\* to the handler that called it.
C16_PlannerReturns == InPlanner ~> ~InPlanner

----------------------------------------------------------------------------
(* C17 *)

\* the four shapes of a step: follow and tpa with a player name, goto with
\* three integer coordinates, wait with integer seconds
KnownShape(step) ==
    CASE step.action \in {"follow", "tpa"} ->
              "player" \in DOMAIN step /\ step.player # ""
      [] step.action = "goto" -> step.form = "int"
      [] step.action = "wait" -> step.numeric
      [] OTHER -> FALSE

\* C17 (as claimed): every step the executor is handed has one of the four
\* known shapes; the planners drop every other element of a steps array.
C17_OnlyKnownShapes ==
    \A k \in 1..Len(last.ran) : KnownShape(last.ran[k].step)

----------------------------------------------------------------------------
(* C18 *)

\* C18 (as claimed): a step whose underlying call fails never ends the plan:
\* no step ends with an exception that leaves executeSteps ("throw") or with
\* the executor suspended in a promise that cannot settle ("hang"); after
\* every step that ran, the loop goes on or waits for the step's own timeout.
C18_StepFailureIsLocal ==
    \A k \in 1..Len(last.ran) : last.ran[k].next \notin {"throw", "hang"}

----------------------------------------------------------------------------
(* C19 *)

\* the text holds 'go to', 'goto' or 'move to'
MovePhrase(text) ==
    \/ HasWord(text, {"goto"})
    \/ \E k \in 1..(Len(text) - 1) :
          Lower(text[k]) \in {"go", "move"} /\ Lower(text[k + 1]) = "to"

\* the block goal of the text's coordinate triple
Destination(text) ==
    LET c == CoordAt(text)
    IN [action |-> "goto", x |-> NumVal(text[c]), y |-> NumVal(text[c + 1]),
        z |-> NumVal(text[c + 2]), form |-> "int"]

\* the text holds an integer triple within the world's limits
InRangeTriple(text) ==
    /\ CoordAt(text) # 0
    /\ Destination(text).x \in -30000000..30000000
    /\ Destination(text).z \in -30000000..30000000
    /\ Destination(text).y \in -64..320

\* the rule-based handler has planned for a trusted actor's movement message
MoveMessage ==
    /\ variant = "nlp"
    /\ last.act = "chat"
    /\ Handled
    /\ last.actor \in last.pre.trustedPlayers
    /\ ~IsListCommand(last.text)
    /\ MovePhrase(last.text)
    /\ InRangeTriple(last.text)

\* what the claim says of a goto step within the limits that has run: one
\* setGoal call with a block goal, at the step's coordinates, and the reply
\* that names the destination
MoveStepDone(r) ==
    LET blocks == {k \in 1..Len(r.goals) : r.goals[k].type = "block"}
    IN /\ Cardinality(blocks) = 1
       /\ \A k \in blocks :
             /\ r.goals[k].x = r.step.x
             /\ r.goals[k].y = r.step.y
             /\ r.goals[k].z = r.step.z
       /\ r.kinds = {"going_to"}

\* C19 (as claimed): a trusted actor's message with a movement phrase and an
\* in-range integer triple gives exactly the plan [GotoBlock{x,y,z}]; the
\* controller gets exactly one setGoal call with a block goal at those
\* coordinates and the reply names the destination.
C19_GotoPlanAnyMessage ==
    /\ MoveMessage => last.plan = <<Destination(last.text)>>
    /\ variant = "nlp" =>
          \A k \in 1..Len(last.ran) :
              (last.ran[k].step.action = "goto" /\ last.ran[k].step.y \in -64..320)
                 => MoveStepDone(last.ran[k])

----------------------------------------------------------------------------
(* C20 *)

\* the event left no trace: no reply, no log entry, no change of the lists,
\* of the goal or of the running handlers
NoTrace ==
    /\ last.out = <<>>
    /\ last.calls = <<>>
    /\ last.writes = <<>>
    /\ last.spawned = "none"
    /\ memory = last.pre.memory
    /\ trustedPlayers = last.pre.trustedPlayers
    /\ ignoredPlayers = last.pre.ignoredPlayers
    /\ goal = last.pre.goal

\* C20 (as claimed): a message whose text holds none of the call-names
\* (case-insensitive substring) leaves no trace, on any channel; a message
\* of another, not ignored actor that holds a call-name in any letter case
\* passes the filter and is handled.
C20_CallNameFilter ==
    /\ (Arrival /\ ~Mentioned(last.text)) => NoTrace
    /\ (/\ Arrival
        /\ Mentioned(last.text)
        /\ last.actor \notin {"", BotUsername}
        /\ last.actor \notin last.pre.ignoredPlayers) => ~NoTrace

----------------------------------------------------------------------------
(* C21 *)

\* The line read as '<name> text': a "<", a name of word characters up to
\* the first ">", at least one blank, and the text after the blanks.
Bracketed(raw) ==
    LET closes == {i \in 1..Len(raw) : raw[i] = ">"}
        p == IF closes = {} THEN 0 ELSE CHOOSE i \in closes : \A j \in closes : i <= j
        blanks == {i \in (p + 1)..Len(raw) : \A j \in (p + 1)..i : raw[j] = " "}
        q == p + Cardinality(blanks)
    IN IF /\ Len(raw) > 0 /\ raw[1] = "<" /\ p > 2
          /\ \A i \in 2..(p - 1) : IsWordChar(raw[i])
          /\ blanks # {}
       THEN [ok |-> TRUE, username |-> SubSeq(raw, 2, p - 1),
             message |-> SubSeq(raw, q + 1, Len(raw))]
       ELSE NoNorm

\* C21: for every raw line of the form '<name> text' the handlers read
\* actor = name and text = text: the brackets and the separating blanks are
\* gone and nothing else is added, dropped or changed.
C21_BracketedLine ==
    (last.act = "normalize" /\ Bracketed(last.raw).ok)
    => last.norm = Bracketed(last.raw)

\* the line '<a> :a', whose text holds a character that is no word character
C21_Witness ==
    /\ last.act = "normalize"
    /\ last.raw = <<"<", "a", ">", " ", ":">>
    /\ last.norm.ok
    /\ last.norm.message = <<":">>

----------------------------------------------------------------------------
(* C22 *)

\* a chat line without a user name that starts with no name, bracketed or
\* bare: a broadcast such as '[Server] ...'
Unrecognized ==
    /\ last.act = "chat"
    /\ last.sender = ""
    /\ Len(last.text) > 0
    /\ last.text[1] = "[Server]"

\* C22 (as claimed): a raw line that matches none of the recognized shapes
\* is never handed to the gate: it yields no actor, no reply, no log entry
\* and no state change.
C22_UnrecognizedLineDropped ==
    Unrecognized => (last.actor = "" /\ NoTrace)

----------------------------------------------------------------------------
(* C23 *)

\* C23 (as claimed): a line under the agent's own name leaves no trace, so
\* the agent never answers itself; a line of another actor, not ignored,
\* that mentions the agent is processed.
C23_SelfNeverInbound ==
    /\ (Arrival /\ last.actor = BotUsername) => NoTrace
    /\ (/\ Arrival
        /\ last.act = "chat"
        /\ last.actor \notin {"", BotUsername}
        /\ last.actor \notin last.pre.ignoredPlayers
        /\ Mentioned(last.text)) => ~NoTrace

----------------------------------------------------------------------------
(* C24 *)

\* C24 (as claimed): when the connection is lost through an error, a kick
\* or a disconnect, with auto-reconnect on, the supervisor eventually makes
\* a fresh connection attempt, whichever the cause.
C24_LossLeadsToAttempt == sup.lost ~> ~sup.lost

----------------------------------------------------------------------------
(* C25 *)

\* C25 (as claimed): consecutive failed connection attempts stop at the
\* retry limit of 5, after which no further attempt is scheduled in that
\* cycle, and the delay before attempt k grows with k.
C25_BoundedBackoff ==
    /\ sup.failed >= 5 => sup.stimers = <<>>
    /\ \A k \in 1..(Len(sup.delays) - 1) : sup.delays[k] < sup.delays[k + 1]

----------------------------------------------------------------------------
(* C26 *)

----------------------------------------------------------------------------
(* C27 *)

\* C27 (as claimed): no persisted file makes start-up or a later handler
\* fail: a missing or unparseable file leaves its store empty (the trusted
\* store: empty but for the owner), and no handler throws on a store.
C27_FilesNeverFatal ==
    /\ ~last.threw
    /\ last.act = "init" =>
         /\ stores.memory \in {"missing", "syntax"} => memory = <<>>
         /\ stores.ignored \in {"missing", "syntax"} => ignoredPlayers = {}
         /\ stores.trusted \in {"missing", "syntax"} => trustedPlayers \subseteq {ownerName}

----------------------------------------------------------------------------
(* C28 *)

\* the steps array the last action worked on, and the index it started at
RunningPlan == IF last.act \in {"plan", "chat"} THEN last.plan ELSE last.task.steps

StartIndex == IF last.act \in {"plan", "chat"} THEN 1 ELSE last.task.i

\* the positions in last.out of the replies of the k-th step that ran
RECURSIVE SaidBefore(_)
SaidBefore(k) == IF k = 0 THEN 0 ELSE SaidBefore(k - 1) + Len(last.ran[k].said)

\* C28: the steps of a plan run in plan order, one at a time: the steps an
\* action runs are steps[i], steps[i + 1], ... of the plan from the index
\* the executor stood at (1 when the plan has just been made); a step
\* follows another in the same action only when that one has ended (it was
\* skipped with its reply), and its replies and controller calls come after
\* those of the step before; a wait step is the last step of its action and
\* leaves the executor suspended at that step; only the end of the wait
\* moves it on, with no controller call and no step of its own.
C28_StepsInOrder ==
    /\ \A k \in 1..Len(last.ran) :
          /\ last.ran[k].at[2] = StartIndex + k - 1
          /\ last.ran[k].at[2] <= Len(RunningPlan)
          /\ last.ran[k].step = RunningPlan[last.ran[k].at[2]]
          /\ k < Len(last.ran) => last.ran[k].next = "continue"
          /\ \E from \in 0..Len(last.out) :
                /\ from >= SaidBefore(k - 1)
                /\ from + Len(last.ran[k].said) <= Len(last.out)
                /\ SubSeq(last.out, from + 1, from + Len(last.ran[k].said))
                      = last.ran[k].said
          /\ last.ran[k].step.action = "wait" =>
                /\ last.ran[k].next = "wait"
                /\ last.ran[k].kinds = {"waiting"}
                /\ \E t \in last.left :
                      /\ t.pc = "wait" /\ t.i = last.ran[k].at[2]
                      /\ t.steps = RunningPlan
    /\ last.act = "waitdone" =>
          /\ last.task.pc = "wait"
          /\ last.calls = <<>>
          /\ last.ran = <<>>
          /\ Kinds(last.out) = {"done_waiting"}
          /\ \A t \in last.left : t.pc = "step" /\ t.i = last.task.i + 1
          /\ last.task.i < Len(last.task.steps) => last.left # {}
    /\ \A t \in tasks : t.pc = "wait" => t.steps[t.i].action = "wait"

\* the second step of a plan has run, after the wait of its first step
C28_Witness ==
    /\ last.act = "step"
    /\ last.task.i = 2
    /\ last.task.steps[1].action = "wait"
    /\ Len(last.ran) = 1
    /\ last.ran[1].step = Dance

\* a skipped follow step and the wait step after it have run in one action
C28_ChainWitness ==
    /\ Len(last.ran) = 2
    /\ last.ran[1].next = "continue"
    /\ last.ran[2].step.action = "wait"
    /\ last.spawned = "wait"

----------------------------------------------------------------------------
(* C29 *)

\* a plan suspended in its wait step or in the pacing delay after a step
Suspended(w) == w.pc = "wait" \/ (w.pc = "step" /\ w.i > 1)

\* C29: a plan suspended in a wait step or in the pacing delay holds nobody
\* up: while it is suspended a whisper of another player can be taken, and
\* every other handler can go on from where it stands, its planner can
\* return and its executor can run its next step.
C29_WaitHoldsNobodyUp ==
    \A w \in tasks : Suspended(w) =>
        /\ (nmsgs < PlanMaxMsgs /\ Cardinality(tasks) < MaxTasks) =>
              \A u \in {ownerName, "Alice"} \ {w.user} :
                  ENABLED Whisper(u, <<"follow", "me">>)
        /\ \A t \in tasks \ {w} :
              /\ t.pc = "plan" =>
                    ENABLED (\E r \in Responses(PlanPlans), world \in Worlds :
                                PlanReturn(t, r, r, world))
              /\ t.pc = "step" =>
                    ENABLED (\E world \in Worlds : Step(t, world))

\* Alice's follow step has installed its goal while the owner's plan is
\* still in its wait
C29_Witness ==
    /\ last.act \in {"plan", "step"}
    /\ last.actor = "Alice"
    /\ Len(last.ran) = 1
    /\ last.ran[1].step = FollowAlice
    /\ last.ran[1].kinds = {"following"}
    /\ goal.type = "follow"
    /\ \E w \in tasks : w.pc = "wait" /\ w.user = ownerName /\ w.id < last.task.id

----------------------------------------------------------------------------
(* C30 *)

\* the words of a text that are not a call-name
Said(text) == SelectSeq(text, LAMBDA w : Lower(w) \notin botNames)

\* The last action took a stop command on the channel where it is read:
\* the whisper 'stop' in bot.js, the chat line of a call-name and 'stop' in
\* part_000.
StopCommand ==
    /\ Said(last.text) = <<"stop">>
    /\ \/ last.act = "whisper" /\ last.text = <<"stop">>
       \/ last.act = "chat" /\ variant = "nlp" /\ Mentioned(last.text)

\* the message cleared the goal: setGoal(null) alone, nothing installed after
Cleared == last.calls = <<NoGoal>> /\ goal = NoGoal

\* the message made no controller call and left the goal as it was
Untouched == last.calls = <<>> /\ goal = last.pre.goal

\* C30 (as claimed): the owner's stop command, sent while a movement goal is
\* active, calls setGoal(null) and leaves the controller without a goal
\* right after it is handled; the stop message of anybody else makes no
\* controller call and leaves the goal as it was.
C30_OwnerStopAlways ==
    /\ (StopCommand /\ last.sender = ownerName /\ last.pre.goal # NoGoal) => Cleared
    /\ (StopCommand /\ last.sender # ownerName) => Untouched

----------------------------------------------------------------------------
(* C31 *)

\* a follow step that ran while its target had no entity in sight
Unseen(r) == r.step.action = "follow" /\ r.step.player \notin last.world.entities

\* C31: a follow step whose target has no visible entity answers "can't
\* see" and nothing else, calls setGoal not at all (the goal stays), arms
\* no timer of its own, and the executor goes on with the next step at
\* once: the step after it runs in the same action, or the plan is over.
C31_UnseenFollowSkipped ==
    \A k \in 1..Len(last.ran) : Unseen(last.ran[k]) =>
        /\ Len(last.ran[k].said) = 1
        /\ last.ran[k].said[1].kind = "cant_see"
        /\ last.ran[k].said[1].arg = last.ran[k].step.player
        /\ last.ran[k].goals = <<>>
        /\ \A j \in 1..Len(timers) : timers[j].gid # last.ran[k].at
        /\ last.ran[k].next = "continue"
        /\ IF last.ran[k].at[2] < Len(RunningPlan)
           THEN /\ k < Len(last.ran)
                /\ last.ran[k + 1].at = <<last.ran[k].at[1], last.ran[k].at[2] + 1>>
           ELSE last.left = {}

\* the follow step of a plan found nobody while the goal of an earlier
\* plan is active, and the plan has gone on to its wait step
C31_Witness ==
    /\ Len(last.ran) = 2
    /\ RunningPlan = <<FollowAlice, WaitFive>>
    /\ Unseen(last.ran[1])
    /\ last.ran[2].step = WaitFive
    /\ goal.type = "follow"
    /\ goal = last.pre.goal
    /\ Len(timers) = 1
    /\ last.spawned = "wait"

----------------------------------------------------------------------------
(* C32 *)

\* C32 (as claimed): a step whose action is none of follow, goto, tpa,
\* wait, a null step and a step without an action field included, gets the
\* reply that names it as unknown and no controller call, and the plan goes
\* on with its next step.
C32_UnknownStepSkipped ==
    \A k \in 1..Len(last.ran) :
        last.ran[k].step.action \notin {"follow", "goto", "tpa", "wait"} =>
            /\ last.ran[k].kinds = {"unknown_action"}
            /\ last.ran[k].goals = <<>>
            /\ last.ran[k].at[2] < Len(RunningPlan) =>
                  \E t \in last.left :
                      t.pc = "step" /\ t.i = last.ran[k].at[2] + 1

----------------------------------------------------------------------------
(* C33 *)

StopWords == {"me", "to", "at", "the"}

\* the target as the claim resolves it: the token after the first command
\* verb unless it is a stop-word, else the requesting actor
ClaimedTarget(text, actor) ==
    LET words == LowerAll(text)
        hits == {k \in 1..Len(words) :
                    words[k] \in {"follow", "come", "teleport", "tp", "tpa"}}
    IN IF hits = {} THEN actor
       ELSE LET at == CHOOSE j \in hits : \A k \in hits : j <= k
            IN IF at + 1 <= Len(words) /\ words[at + 1] \notin StopWords
               THEN words[at + 1]
               ELSE actor

\* C33: in the rule-based planner the target of a follow or tpa step is the
\* token right after the command verb unless that token is one of me, to,
\* at, the; then, and when there is no such token, it is the requesting
\* actor's own name.
C33_TargetSkipsStopWords ==
    (last.act = "chat" /\ variant = "nlp") =>
        \A k \in 1..Len(last.plan) :
            last.plan[k].action \in {"follow", "tpa"} =>
                last.plan[k].player = ClaimedTarget(last.text, last.actor)

----------------------------------------------------------------------------
(* C34 *)

\* the last action took a public chat line, or resumed the handler of one,
\* in the variant that listens to whispers apart from chat
PublicChatHandled ==
    /\ variant = "cerebras"
    /\ \/ last.act = "chat"
       \/ last.task.pc # "none" /\ last.task.chan = "chat"

\* C34: in the variant with a whisper handler of its own, handling a public
\* chat line changes neither list nor the goal, writes no list file, makes
\* no controller call and runs neither planner nor executor, whoever sent
\* it: it sends nothing but a conversational reply to the chat and adds
\* nothing but entries at the end of the log.
C34_PublicChatTalksOnly ==
    PublicChatHandled =>
        /\ trustedPlayers = last.pre.trustedPlayers
        /\ ignoredPlayers = last.pre.ignoredPlayers
        /\ goal = last.pre.goal
        /\ last.writes = <<>>
        /\ last.calls = <<>>
        /\ last.plan = <<>> /\ last.asked = <<>> /\ last.ran = <<>>
        /\ last.spawned \in {"none", "convo"}
        /\ last.act \in {"chat", "convo"}
        /\ \A k \in 1..Len(last.out) :
              last.out[k].to = "*" /\ last.out[k].kind \in {"convo", "thinking"}
        /\ last.act = "chat" => last.out = <<>>
        /\ Len(last.pre.memory) < MemoryCap =>
              /\ Len(memory) >= Len(last.pre.memory)
              /\ SubSeq(memory, 1, Len(last.pre.memory)) = last.pre.memory

\* the owner's chat line 'phyll trust bob' has gone to the conversation and
\* bob is not trusted
C34_Witness ==
    /\ variant = "cerebras"
    /\ last.act = "chat"
    /\ last.sender = ownerName
    /\ last.text = <<"phyll", "trust", "bob">>
    /\ last.spawned = "convo"
    /\ "bob" \notin trustedPlayers
    /\ Len(memory) = Len(last.pre.memory) + 1

----------------------------------------------------------------------------
(* C35 *)

\* a handler of a player who is no longer trusted
Revoked(t) == t.pc \in {"plan", "step", "wait"} /\ t.user \notin trustedPlayers

\* C35: trust is read once, when the message arrives.  A handler whose
\* player has been taken off the trusted list while it waits for the
\* backend, in a wait step or in the pacing delay goes on all the same: its
\* continuation can run, a returned plan is executed from its first step,
\* and its steps do what they do for a trusted player, a follow or tpa step
\* included.
C35_TrustReadOnce ==
    /\ \A t \in tasks : Revoked(t) =>
          /\ t.pc = "plan" =>
                ENABLED (\E r \in Responses(TrustPlans), world \in Worlds :
                            PlanReturn(t, r, r, world))
          /\ t.pc = "step" => ENABLED (\E world \in Worlds : Step(t, world))
          /\ t.pc = "wait" => ENABLED (\E world \in Worlds : WaitDone(t, world))
    /\ (last.act \in {"plan", "step", "waitdone"}
          /\ last.task.user \notin last.pre.trustedPlayers) =>
          /\ "refuse" \notin Kinds(last.out)
          /\ (last.act = "plan" /\ last.plan # <<>>) =>
                \/ last.ran # <<>> /\ last.ran[1].at[2] = 1
                \/ \E t \in last.left : t.pc = "step" /\ t.i = 1 /\ t.steps = last.plan
          /\ last.act = "step" => last.ran # <<>>
          /\ \A k \in 1..Len(last.ran) :
                /\ last.ran[k].step = FollowAlice =>
                      \/ last.ran[k].kinds = {"cant_see"}
                      \/ /\ last.ran[k].kinds = {"following"}
                         /\ goal.type = "follow" /\ goal.id = last.ran[k].at
                /\ last.ran[k].step = TpaAlice =>
                      last.ran[k].kinds = {"tpa_command", "tpa_sent"}
          /\ (last.act = "waitdone" /\ last.task.i < Len(last.task.steps)) =>
                \E t \in last.left : t.pc = "step" /\ t.i = last.task.i + 1

\* Alice's follow step installs its goal after the wait during which the
\* owner took her off the trusted list
C35_Witness ==
    /\ last.act = "step"
    /\ last.task.user = "Alice"
    /\ last.task.steps = <<WaitFive, FollowAlice>>
    /\ last.task.i = 2
    /\ "Alice" \notin last.pre.trustedPlayers
    /\ goal.type = "follow"
    /\ Len(last.calls) = 2

\* Alice's plan sends its teleport request after she was taken off the list
C35_TpaWitness ==
    /\ last.act = "step"
    /\ last.task.user = "Alice"
    /\ last.task.steps[last.task.i] = TpaAlice
    /\ "Alice" \notin last.pre.trustedPlayers
    /\ Kinds(last.out) = {"tpa_command", "tpa_sent"}

----------------------------------------------------------------------------
(* C36 *)

\* the armed follow timers, without the observation mark
Armed(q) == [k \in 1..Len(q) |-> [user |-> q[k].user, player |-> q[k].player,
                                  gid |-> q[k].gid]]

\* C36: the owner's stop command cancels nothing but the goal: every
\* handler that is running when it is taken is still there afterwards,
\* where it stood, and every armed follow timer stays armed.
C36_StopCancelsNothing ==
    [][(\/ Whisper(ownerName, <<"stop">>)
        \/ \E world \in Worlds : Chat(ownerName, <<"phyll", "stop">>, world)) =>
          /\ tasks \subseteq tasks'
          /\ Armed(timers') = Armed(timers)]_vars

\* the second follow step of a plan has installed its goal after a stop
\* cleared the goal of the first, whose timer is still armed
C36_Witness ==
    /\ last.act = "step"
    /\ last.task.steps = <<FollowAlice, FollowBob>>
    /\ last.task.i = 2
    /\ last.pre.goal = NoGoal
    /\ goal.type = "follow" /\ goal.player = "bob"
    /\ Len(timers) = 2
    /\ timers[1].player = "Alice" /\ timers[1].disturbed

----------------------------------------------------------------------------
(* C37 *)

\* C37 (as claimed): at most one supervisor timer is armed at any time,
\* also after a failed attempt that schedules its own retry, and a new
\* handle is created only when the handle before it has ended.
C37_OneReconnectPending ==
    [][/\ Len(sup'.stimers) <= 1
       /\ sup'.created > sup.created => sup.state = "ended"]_vars

----------------------------------------------------------------------------
(* C38 *)

\* C38 (as claimed): the owner is never on the ignored list, so every list
\* command the owner whispers is handled and answered.
C38_OwnerNeverLockedOut ==
    /\ ownerName \notin ignoredPlayers
    /\ (last.act = "whisper" /\ last.sender = ownerName /\ last.text \in ListTexts) =>
          last.out # <<>>

----------------------------------------------------------------------------
(* C39 *)

\* the outcomes the last message has had in the action that took it
OwnerCommandDone ==
    Kinds(last.out) \cap (ListReplies \cup {"status", "trusted_list", "stopped_all"}) # {}

PlanStarted == last.spawned \in {"plan", "step", "wait"} \/ last.ran # <<>>

Refused == "refuse" \in Kinds(last.out)

Conversed == last.spawned = "convo" \/ Kinds(last.out) \cap {"convo", "thinking"} # {}

\* C39 (as claimed): a message has one outcome at most: an owner command,
\* a plan, a refusal or a conversational answer, never two of them (and
\* none when it is discarded).
C39_OneOutcome ==
    Arrival =>
        Cardinality({o \in {"owner", "plan", "refuse", "convo"} :
                        \/ o = "owner" /\ OwnerCommandDone
                        \/ o = "plan" /\ PlanStarted
                        \/ o = "refuse" /\ Refused
                        \/ o = "convo" /\ Conversed}) <= 1

----------------------------------------------------------------------------
(* C40 *)

\* C40 (as claimed): the execution of a plan always comes to its end: no
\* executor is left in a step that can never complete, and none takes the
\* process down with it.
C40_PlansTerminate == \A t \in tasks : t.pc \notin {"hung", "dead"}

====
